---- MODULE Spec2Model ----
(***************************************************************************)
(* Model of the image-model comparison page (Home: handleSubmit, the       *)
(* per-task then/catch updaters, handleVote) and of the generation         *)
(* endpoints it fans out to (/api/gemini-image-flash, /api/image-gpt,      *)
(* /api/flux-1) together with the generations table they share.            *)
(*                                                                         *)
(* Strings of the program are TLA+ strings; the JavaScript value undefined *)
(* is the string "undefined" for string-valued fields and UndefNum for     *)
(* number-valued fields.                                                   *)
(***************************************************************************)
EXTENDS Integers, Sequences, FiniteSets, Bags, TLC

VARIABLES
    prompt,               \* useState prompt
    isSignedIn,           \* useAuth().isSignedIn
    selectedModels,       \* useState selectedModels: key -> BOOLEAN
    uploadedImage,        \* useState uploadedImage (undefined models null)
    messages,             \* useState messages: sequence of ChatMessage
    loading,              \* useState loading
    error,                \* useState error (undefined models null)
    showLoadingSkeleton,  \* useState showLoadingSkeleton
    pendingPrompt,        \* localStorage "pendingPrompt"
    redirected,           \* redirectToSignIn was called: the page is left
    clock,                \* last reading of performance.now(), in ticks
    nextId,               \* source of crypto.randomUUID()
    runs,                 \* handleSubmit invocations suspended at allSettled
    fetches,              \* requests issued by fetch(), by request id
    generations,          \* the generations table: a bag of rows
    merges,               \* number of updaters applied (MergeSpec only)
    handler               \* one route handler run step by step (RouteSpec only)

vars == <<prompt, isSignedIn, selectedModels, uploadedImage, messages, loading,
          error, showLoadingSkeleton, pendingPrompt, redirected, clock, nextId,
          runs, fetches, generations, merges, handler>>

pageVars == <<prompt, isSignedIn, selectedModels, uploadedImage, messages, loading,
              error, showLoadingSkeleton, pendingPrompt, redirected, clock, nextId,
              runs>>

----------------------------------------------------------------------------
(* Bounds of the model *)

MaxSubmits == 1     \* handleSubmit invocations that pass validation
MaxClock == 1       \* largest reading of performance.now(), in ticks
TicksPerMs == 2     \* clock ticks per millisecond (performance.now() is fractional)
MaxHeadroom == 1    \* the user starts with QuotaLimit - MaxHeadroom .. QuotaLimit rows
MaxMerges == 2      \* updater applications in MergeSpec
MaxVeoPolls == 121  \* iterations of the Veo3 wait loop that are explored
MaxChunks == 2      \* chunks of a Gemini stream

(* Program constants *)

QuotaLimit == 10    \* existing.length >= 10
QueryLimit == 11    \* .limit(11)

undefined == "undefined"
UndefNum == 0 - 1

(* No route handler is run step by step *)
NoHandler == [route |-> "none"]

Keys == <<"imageGpt", "gemini", "flux">>

LabelOf(k) ==
    IF k = "gemini" THEN "Gemini" ELSE IF k = "flux" THEN "Flux-1" ELSE "Image-GPT"

EndpointOf(k) ==
    IF k = "gemini" THEN "/api/gemini-image-flash"
    ELSE IF k = "flux" THEN "/api/flux-1" ELSE "/api/image-gpt"

Labels == {LabelOf(Keys[i]) : i \in 1..Len(Keys)}

(* Sample inputs *)

Prompts == {"", " ", "x"}
Texts == {"", " ", "x"}
UserId == "user_1"

----------------------------------------------------------------------------
(* String.prototype.trim over the space character *)

RECURSIVE trimStart(_)
trimStart(s) == IF Len(s) > 0 /\ Head(s) = " " THEN trimStart(Tail(s)) ELSE s

RECURSIVE trimEnd(_)
trimEnd(s) ==
    IF Len(s) > 0 /\ SubSeq(s, Len(s), Len(s)) = " "
    THEN trimEnd(SubSeq(s, 1, Len(s) - 1))
    ELSE s

trim(s) == trimEnd(trimStart(s))

(* Math.round(now - start) for readings in ticks: round half up *)
MathRound(ticks) == (2 * ticks + TicksPerMs) \div (2 * TicksPerMs)

SeqMap(F(_), s) == [i \in 1..Len(s) |-> F(s[i])]

RECURSIVE SeqFilter(_, _)
SeqFilter(P(_), s) ==
    IF s = <<>> THEN <<>>
    ELSE IF P(Head(s)) THEN <<Head(s)>> \o SeqFilter(P, Tail(s))
    ELSE SeqFilter(P, Tail(s))

----------------------------------------------------------------------------
(* ChatMessage and its variants *)

Variant(label) ==
    [label |-> label, imageUrl |-> undefined, text |-> undefined, vote |-> undefined,
     durationMs |-> UndefNum, tokens |-> UndefNum]

UserMessage(id, content) ==
    [id |-> id, role |-> "user", content |-> content, variants |-> <<>>]

AssistantMessage(id, labels) ==
    [id |-> id, role |-> "assistant", content |-> undefined,
     variants |-> SeqMap(Variant, labels)]

(* ModelResponse: the parsed body of a 2xx response *)
ModelResponse(image, url, text, tokens, totalTokens) ==
    [image |-> image, url |-> url, text |-> text, tokens |-> tokens,
     totalTokens |-> totalTokens]

----------------------------------------------------------------------------
(* The updater of a fulfilled task: t.promise.then((value) => setMessages(...)) *)

thenText(value) ==
    IF value.text # undefined /\ Len(trim(value.text)) > 0 THEN value.text ELSE undefined

(* thenVariant without its label test: what C2 rules out *)
thenVariantAll(v, label, value, now, start) ==
    [v EXCEPT
        !.imageUrl = IF value.image # undefined THEN value.image
                     ELSE IF value.url # undefined THEN value.url ELSE undefined,
        !.text = thenText(value),
        !.durationMs = MathRound(now - start),
        !.tokens = IF value.tokens # UndefNum THEN value.tokens
                   ELSE IF value.totalTokens # UndefNum THEN value.totalTokens
                   ELSE UndefNum]

thenVariant(v, label, value, now, start) ==
    IF v.label # label THEN v
    ELSE [v EXCEPT
            !.imageUrl = IF value.image # undefined THEN value.image
                         ELSE IF value.url # undefined THEN value.url ELSE undefined,
            !.text = thenText(value),
            !.durationMs = MathRound(now - start),
            !.tokens = IF value.tokens # UndefNum THEN value.tokens
                       ELSE IF value.totalTokens # UndefNum THEN value.totalTokens
                       ELSE UndefNum]

(* thenContent that promotes the text of every label: what C28 rules out *)
thenContentAnyLabel(m, label, value) ==
    IF thenText(value) # undefined THEN thenText(value) ELSE m.content

thenContent(m, label, value) ==
    IF label = "Image-GPT"
    THEN (IF thenText(value) # undefined THEN thenText(value) ELSE m.content)
    ELSE m.content

(* thenUpdater without its test of the message id: what C25 rules out *)
thenUpdaterAnyTurn(m, assistantId, label, value, now, start) ==
    [m EXCEPT
        !.variants = [i \in 1..Len(m.variants) |->
                        thenVariant(m.variants[i], label, value, now, start)],
        !.content = thenContent(m, label, value)]

thenUpdater(m, assistantId, label, value, now, start) ==
    IF m.id # assistantId THEN m
    ELSE [m EXCEPT
            !.variants = [i \in 1..Len(m.variants) |->
                            thenVariant(m.variants[i], label, value, now, start)],
            !.content = thenContent(m, label, value)]

(* The updater of a rejected task: .catch((err) => setMessages(...)) *)

(* catchVariant without its label test: what C8 rules out *)
catchVariantAll(v, label, message) == [v EXCEPT !.text = message]

catchVariant(v, label, message) ==
    IF v.label = label THEN [v EXCEPT !.text = message] ELSE v

catchContent(m, label, message) ==
    IF label = "Image-GPT" THEN message ELSE m.content

(* catchUpdater that drops the failed branch: what C23 rules out *)
catchUpdaterDropping(m, assistantId, label, message) ==
    IF m.id # assistantId THEN m
    ELSE [m EXCEPT
            !.variants = SeqFilter(LAMBDA v : v.label # label, m.variants),
            !.content = catchContent(m, label, message)]

catchUpdater(m, assistantId, label, message) ==
    IF m.id # assistantId THEN m
    ELSE [m EXCEPT
            !.variants = [i \in 1..Len(m.variants) |->
                            catchVariant(m.variants[i], label, message)],
            !.content = catchContent(m, label, message)]

(* An outcome of a task: the parsed body, or the message of the thrown Error *)
Fulfilled(value) == [ok |-> TRUE, value |-> value, message |-> undefined]
Rejected(message) ==
    [ok |-> FALSE,
     value |-> ModelResponse(undefined, undefined, undefined, UndefNum, UndefNum),
     message |-> message]

NoOutcome == Rejected(undefined)

(* Both updaters run for one outcome: what C30 rules out *)
applyBoth(m, assistantId, label, o, now, start) ==
    catchUpdater(thenUpdater(m, assistantId, label, o.value, now, start),
                 assistantId, label, o.message)

applyOutcome(m, assistantId, label, o, now, start) ==
    IF o.ok THEN thenUpdater(m, assistantId, label, o.value, now, start)
    ELSE catchUpdater(m, assistantId, label, o.message)

----------------------------------------------------------------------------
(* handleVote: toggles the vote of one variant of one message *)

(* voteVariant as a one-way set: what C26 rules out *)
voteVariantSet(v, label, vote) ==
    IF v.label # label THEN v ELSE [v EXCEPT !.vote = vote]

voteVariant(v, label, vote) ==
    IF v.label # label THEN v
    ELSE [v EXCEPT !.vote = IF v.vote = vote THEN undefined ELSE vote]

handleVoteUpdater(m, messageId, label, vote) ==
    IF m.id # messageId THEN m
    ELSE [m EXCEPT !.variants = [i \in 1..Len(m.variants) |->
                                    voteVariant(m.variants[i], label, vote)]]

----------------------------------------------------------------------------
(* The chat view: what the render of a message shows *)

(* JavaScript truthiness of an optional string *)
Truthy(s) == s # undefined /\ s # ""

(* m.role === "assistant" && m.content ? <p>{m.content}</p> : null *)
contentShown(m) == m.role = "assistant" /\ Truthy(m.content)

(* const isPending = !v.imageUrl && !v.text *)
isPending(v) == ~Truthy(v.imageUrl) /\ ~Truthy(v.text)

(* const hasImage = Boolean(v.imageUrl) *)
hasImage(v) == Truthy(v.imageUrl)

(* if (!isPending && !hasImage) return null; isPending ? shimmer : image *)
variantView(v) ==
    IF ~isPending(v) /\ ~hasImage(v) THEN "hidden"
    ELSE IF isPending(v) THEN "placeholder"
    ELSE "image"

(* The texts of the turn that the render puts on the page: the content    *)
(* paragraph; the cell of a variant shows its label and image, never text *)
shownTexts(m) == IF contentShown(m) THEN {m.content} ELSE {}

----------------------------------------------------------------------------
(* The page: state after the first render *)

SelectedKeys == SeqFilter(LAMBDA k : selectedModels[k], Keys)

(* selectedEntries.length *)
selectedEntriesLength == Len(SelectedKeys)

(* handleSubmit invocations that got past the prompt and sign-in checks *)
Submits == Len(SeqFilter(LAMBDA m : m.role = "user", messages))

PageInit ==
    /\ prompt = ""
    /\ isSignedIn \in BOOLEAN
    /\ selectedModels = [k \in {"gemini", "flux", "imageGpt"} |-> TRUE]
    /\ uploadedImage = undefined
    /\ messages = <<>>
    /\ loading = FALSE
    /\ error = undefined
    /\ showLoadingSkeleton = FALSE
    /\ pendingPrompt = undefined
    /\ redirected = FALSE
    /\ clock = 0
    /\ nextId = 1
    /\ runs = <<>>
    /\ fetches = <<>>

(* User input: typing, the model toggles, choosing or removing an image.   *)
(* Only handleSubmit reads these, so they are explored while a submission  *)
(* is still possible.                                                      *)
CanEdit == ~redirected /\ Submits < MaxSubmits

setPrompt(p) ==
    /\ CanEdit
    /\ prompt' = p
    /\ UNCHANGED <<isSignedIn, selectedModels, uploadedImage, messages, loading, error,
                   showLoadingSkeleton, pendingPrompt, redirected, clock, nextId, runs,
                   fetches, generations, merges, handler>>

toggleModel(k) ==
    /\ CanEdit
    /\ selectedModels' = [selectedModels EXCEPT ![k] = ~selectedModels[k]]
    /\ UNCHANGED <<prompt, isSignedIn, uploadedImage, messages, loading, error,
                   showLoadingSkeleton, pendingPrompt, redirected, clock, nextId, runs,
                   fetches, generations, merges, handler>>

setUploadedImage(img) ==
    /\ CanEdit
    /\ uploadedImage' = img
    /\ UNCHANGED <<prompt, isSignedIn, selectedModels, messages, loading, error,
                   showLoadingSkeleton, pendingPrompt, redirected, clock, nextId, runs,
                   fetches, generations, merges, handler>>

----------------------------------------------------------------------------
(* handleSubmit, up to its await *)

(* !prompt, the test without trim(): what C4 rules out *)
promptIsEmpty(p) == Len(p) = 0

(* !prompt.trim() *)
promptIsBlank(p) == Len(trim(p)) = 0

(* if (!prompt.trim()) return; *)
handleSubmitBlank ==
    /\ ~redirected
    /\ promptIsBlank(prompt)
    /\ UNCHANGED vars

(* if (!isSignedIn) { localStorage.setItem(...); redirectToSignIn(...); return; } *)
handleSubmitSignIn ==
    /\ ~redirected
    /\ ~promptIsBlank(prompt)
    /\ ~isSignedIn
    /\ pendingPrompt' = prompt
    /\ redirected' = TRUE
    /\ UNCHANGED <<prompt, isSignedIn, selectedModels, uploadedImage, messages, loading,
                   error, showLoadingSkeleton, clock, nextId, runs, fetches,
                   generations, merges, handler>>

(* if (selectedEntries.length === 0) { setLoading(false); setError(...); return; } *)
handleSubmitNoModels ==
    /\ ~redirected
    /\ ~promptIsBlank(prompt)
    /\ isSignedIn
    /\ Submits < MaxSubmits
    /\ selectedEntriesLength = 0
    /\ messages' = Append(messages, UserMessage(nextId, prompt))
    /\ nextId' = nextId + 1
    /\ prompt' = ""
    /\ loading' = FALSE
    /\ showLoadingSkeleton' = TRUE
    /\ error' = "Select at least one model"
    /\ UNCHANGED <<isSignedIn, selectedModels, uploadedImage, pendingPrompt, redirected,
                   clock, runs, fetches, generations, merges, handler>>

(* What fetch() resolves with: r.ok, r.status, r.json() and r.text() *)
Response(ok, status, value, text) ==
    [ok |-> ok, status |-> status, value |-> value, text |-> text]

NoValue == ModelResponse(undefined, undefined, undefined, UndefNum, UndefNum)
NoResponse == Response(FALSE, 0, NoValue, undefined)

(* The request of one fetch(): the three fetches are issued whatever is selected; *)
(* observed says whether the promise went into tasks.                             *)
Fetch(key, run, payload) ==
    [key |-> key, run |-> run, payload |-> payload, observed |-> selectedModels[key],
     pc |-> "sent", userId |-> undefined, status |-> 0, response |-> NoResponse,
     outcome |-> NoOutcome]

(* fetch("/api/gemini-image-flash"), fetch("/api/image-gpt"), fetch("/api/flux-1") *)
issuedFetches(run, payload) ==
    <<Fetch("gemini", run, payload), Fetch("imageGpt", run, payload),
      Fetch("flux", run, payload)>>

(* tasks: one entry per selected model, in the order Image-GPT, Gemini, Flux-1 *)
tasks == SeqMap(LabelOf, SelectedKeys)

(* startTimes: one reading of performance.now() per task, in task order *)
StartReadings(n) ==
    {r \in [1..n -> clock..MaxClock] : \A i \in 1..n : \A j \in 1..n : i <= j => r[i] <= r[j]}

(* handleSubmit past its checks, with at least one model selected: the user *)
(* message, the three fetches, the tasks and the assistant message         *)
dispatch ==
    /\ ~redirected
    /\ ~promptIsBlank(prompt)
    /\ isSignedIn
    /\ selectedEntriesLength > 0
    /\ LET userId == nextId
           assistantId == nextId + 1
           payload == [prompt |-> prompt, image |-> uploadedImage]
       IN \E r \in StartReadings(Len(tasks)) :
            /\ messages' = messages \o <<UserMessage(userId, prompt),
                                         AssistantMessage(assistantId, tasks)>>
            /\ fetches' = fetches \o issuedFetches(assistantId, payload)
            /\ runs' = Append(runs, [assistantId |-> assistantId,
                                     startTimes |-> [i \in 1..Len(tasks) |->
                                                       [label |-> tasks[i], at |-> r[i]]],
                                     awaiting |-> TRUE])
            /\ clock' = r[Len(tasks)]
            /\ nextId' = nextId + 2
    /\ prompt' = ""
    /\ loading' = TRUE
    /\ showLoadingSkeleton' = FALSE
    /\ error' = undefined
    /\ UNCHANGED <<isSignedIn, selectedModels, uploadedImage, pendingPrompt, redirected,
                   generations, merges, handler>>

handleSubmitDispatch == Submits < MaxSubmits /\ dispatch

----------------------------------------------------------------------------
(* The generations table and the responses of the endpoints *)

Generation(userId, model, inputImageUrl, outputImageUrl) ==
    [userId |-> userId, model |-> model, inputImageUrl |-> inputImageUrl,
     outputImageUrl |-> outputImageUrl, status |-> "completed"]

(* db.select().where(userId = ..., status = 'completed').limit(11): existing.length *)
existingLength(userId) ==
    LET hits == {g \in DOMAIN generations : g.userId = userId /\ g.status = "completed"}
        n == BagCardinality([g \in hits |-> generations[g]])
    IN IF n < QueryLimit THEN n ELSE QueryLimit

(* if (existing.length >= 10) return 429 *)
limitReached(userId) == existingLength(userId) >= QuotaLimit

(* GET /api/fetch-images: the completed rows of the user, their non-empty *)
(* output URLs, count = urls.length                                       *)
fetchImagesCount(userId) ==
    LET urls == {g \in DOMAIN generations :
                    /\ g.userId = userId /\ g.status = "completed"
                    /\ Len(g.outputImageUrl) > 0}
    IN BagCardinality([g \in urls |-> generations[g]])

(* const limitReached = count >= 10 *)
fetchImagesLimitReached(userId) == fetchImagesCount(userId) >= QuotaLimit

(* NextResponse.json({ error }, { status }): the body as r.text() reads it *)
JsonError(status, err) ==
    Response(FALSE, status, NoValue, "{\"error\":\"" \o err \o "\"}")

(* NextResponse.json({ success: true, ... }) *)
JsonSuccess(value) == Response(TRUE, 200, value, undefined)

(* An exception that leaves a route handler: the framework answers 500 *)
Uncaught == Response(FALSE, 500, NoValue, "Internal Server Error")

(* value || fallback for strings *)
Or(a, b) == IF a # undefined /\ a # "" THEN a ELSE b

IsHttpUrl(s) == Len(s) >= 7 /\ SubSeq(s, 1, 4) = "http"

(* The response reaches the page: an observed promise settles later, in its *)
(* then/catch updater; a promise that is in no task has no handler.         *)
respond(f, response) ==
    IF f.observed
    THEN [f EXCEPT !.pc = "responded", !.status = response.status, !.response = response]
    ELSE [f EXCEPT !.pc = "settled", !.status = response.status]

----------------------------------------------------------------------------
(* POST /api/gemini-image-flash *)

(* auth and the rate limit; a failing count query is swallowed by catch {} *)
geminiGuardStep(f, userId, queryOk) ==
    IF userId = undefined THEN respond(f, JsonError(401, "Unauthorized"))
    ELSE IF queryOk /\ limitReached(userId)
    THEN respond(f, JsonError(429, "You have reached the limit of 10 image generations."))
    ELSE [f EXCEPT !.pc = "passed", !.userId = userId]

geminiGuard(i, userId, queryOk) ==
    /\ fetches[i].key = "gemini"
    /\ fetches[i].pc = "sent"
    /\ fetches' = [fetches EXCEPT ![i] = geminiGuardStep(fetches[i], userId, queryOk)]
    /\ UNCHANGED <<pageVars, generations, merges, handler>>

(* What draining the stream leaves: savedImageUrl, fullText, totalTokenCount *)
GeminiStreams ==
    {[thrown |-> FALSE, savedImageUrl |-> "https://t3.storage/g.png", fullText |-> "",
      totalTokenCount |-> 7],
     [thrown |-> FALSE, savedImageUrl |-> "data:image/png;base64,GG", fullText |-> "x",
      totalTokenCount |-> UndefNum],
     [thrown |-> FALSE, savedImageUrl |-> undefined, fullText |-> "x",
      totalTokenCount |-> 7],
     [thrown |-> FALSE, savedImageUrl |-> undefined, fullText |-> " ",
      totalTokenCount |-> UndefNum],
     [thrown |-> TRUE, savedImageUrl |-> undefined, fullText |-> "",
      totalTokenCount |-> UndefNum]}

(* if (savedImageUrl) {...} if (fullText.trim().length > 0) {...} return 500 *)
geminiResponse(u, insertOk) ==
    IF u.thrown THEN Uncaught
    ELSE IF Or(u.savedImageUrl, undefined) # undefined
    THEN (IF insertOk
          THEN JsonSuccess(ModelResponse(u.savedImageUrl, undefined,
                                         Or(u.fullText, undefined),
                                         u.totalTokenCount, u.totalTokenCount))
          ELSE Uncaught)
    ELSE IF Len(trim(u.fullText)) > 0
    THEN JsonSuccess(ModelResponse(undefined, undefined, u.fullText,
                                   u.totalTokenCount, u.totalTokenCount))
    ELSE JsonError(500, "No image or text was generated")

(* await db.insert(usersTable).values(generation) *)
geminiInsert(f, u, insertOk) ==
    IF ~u.thrown /\ Or(u.savedImageUrl, undefined) # undefined /\ insertOk
    THEN SetToBag({Generation(f.userId, "gemini-image-flash", Or(f.payload.image, ""),
                              Or(u.savedImageUrl, ""))})
    ELSE EmptyBag

geminiFinish(i, u, fetchOk, insertOk) ==
    /\ fetches[i].key = "gemini"
    /\ fetches[i].pc = "passed"
    /\ LET f == fetches[i]
           failed == f.payload.image # undefined /\ IsHttpUrl(f.payload.image) /\ ~fetchOk
       IN /\ fetches' = [fetches EXCEPT ![i] =
                           respond(f, IF failed THEN Uncaught
                                      ELSE geminiResponse(u, insertOk))]
          /\ generations' = generations (+)
                              (IF failed THEN EmptyBag ELSE geminiInsert(f, u, insertOk))
    /\ UNCHANGED <<pageVars, merges, handler>>

----------------------------------------------------------------------------
(* POST /api/flux-1 *)

fluxGuardStep(f, userId, queryOk) ==
    IF userId = undefined THEN respond(f, JsonError(401, "Unauthorized"))
    ELSE IF queryOk /\ limitReached(userId)
    THEN respond(f, JsonError(429, "You have reached the limit of 10 image generations."))
    ELSE [f EXCEPT !.pc = "passed", !.userId = userId]

fluxGuard(i, userId, queryOk) ==
    /\ fetches[i].key = "flux"
    /\ fetches[i].pc = "sent"
    /\ fetches' = [fetches EXCEPT ![i] = fluxGuardStep(fetches[i], userId, queryOk)]
    /\ UNCHANGED <<pageVars, generations, merges, handler>>

(* How the submit and the polling loop end: the terminal poll, or none; and *)
(* what uploadFile returned for the image (undefined: it threw or gave none) *)
FluxRuns ==
    {[end |-> "submitFailed", originalImageUrl |-> undefined, uploaded |-> undefined],
     [end |-> "noPollingUrl", originalImageUrl |-> undefined, uploaded |-> undefined],
     [end |-> "pollFailed", originalImageUrl |-> undefined, uploaded |-> undefined],
     [end |-> "Ready", originalImageUrl |-> "https://bfl.ai/f.png",
      uploaded |-> "https://t3.storage/f.png"],
     [end |-> "Ready", originalImageUrl |-> "https://bfl.ai/f.png", uploaded |-> undefined],
     [end |-> "Ready", originalImageUrl |-> undefined, uploaded |-> undefined],
     [end |-> "Failed", originalImageUrl |-> undefined, uploaded |-> undefined],
     [end |-> "timeout", originalImageUrl |-> undefined, uploaded |-> undefined]}

(* let savedImageUrl = originalImageUrl; ... if (url) savedImageUrl = url; *)
fluxSavedImageUrl(u) == Or(u.uploaded, u.originalImageUrl)

fluxResponse(u, insertOk) ==
    IF u.end = "submitFailed" THEN JsonError(502, "BFL submit failed")
    ELSE IF u.end = "noPollingUrl" THEN JsonError(502, "No polling URL returned")
    ELSE IF u.end = "pollFailed" THEN JsonError(502, "BFL polling failed")
    ELSE IF u.end = "Ready"
    THEN (IF insertOk
          THEN JsonSuccess(ModelResponse(undefined,
                                         Or(fluxSavedImageUrl(u), u.originalImageUrl),
                                         undefined, UndefNum, UndefNum))
          ELSE Uncaught)
    ELSE IF u.end = "Failed" THEN JsonError(500, "Generation failed")
    ELSE JsonError(504, "Generation timed out")

fluxInsert(f, u, insertOk) ==
    IF u.end = "Ready" /\ insertOk
    THEN SetToBag({Generation(f.userId, "flux-1", Or(f.payload.image, ""),
                              Or(Or(fluxSavedImageUrl(u), u.originalImageUrl), ""))})
    ELSE EmptyBag

fluxFinish(i, u, insertOk) ==
    /\ fetches[i].key = "flux"
    /\ fetches[i].pc = "passed"
    /\ fetches' = [fetches EXCEPT ![i] = respond(fetches[i], fluxResponse(u, insertOk))]
    /\ generations' = generations (+) fluxInsert(fetches[i], u, insertOk)
    /\ UNCHANGED <<pageVars, merges, handler>>

----------------------------------------------------------------------------
(* POST /api/image-gpt: no rate limit, and auth() is not checked *)

(* What openai.responses.create and the upload leave: savedImageUrl, fullText, *)
(* totalTokens; or the call throws                                             *)
ImageGptOutputs ==
    {[thrown |-> FALSE, savedImageUrl |-> "https://t3.storage/o.png", fullText |-> "",
      totalTokens |-> 9],
     [thrown |-> FALSE, savedImageUrl |-> "data:image/png;base64,OO", fullText |-> "x",
      totalTokens |-> UndefNum],
     [thrown |-> FALSE, savedImageUrl |-> undefined, fullText |-> "x", totalTokens |-> 9],
     [thrown |-> FALSE, savedImageUrl |-> undefined, fullText |-> " ",
      totalTokens |-> UndefNum],
     [thrown |-> TRUE, savedImageUrl |-> undefined, fullText |-> "",
      totalTokens |-> UndefNum]}

imageGptResponse(f, u, fetchOk, insertOk) ==
    IF f.payload.image # undefined /\ IsHttpUrl(f.payload.image) /\ ~fetchOk
    THEN JsonError(400, "Failed to fetch image URL: 404")
    ELSE IF u.thrown THEN JsonError(500, "Connection error.")
    ELSE IF Or(u.savedImageUrl, undefined) # undefined
    THEN (IF insertOk
          THEN JsonSuccess(ModelResponse(u.savedImageUrl, undefined,
                                         Or(u.fullText, undefined),
                                         u.totalTokens, u.totalTokens))
          ELSE JsonError(500, "Failed query"))
    ELSE IF Len(trim(u.fullText)) > 0
    THEN JsonSuccess(ModelResponse(undefined, undefined, u.fullText,
                                   u.totalTokens, u.totalTokens))
    ELSE JsonError(500, "No image or text was generated")

(* inputImageUrl: savedImageUrl || '' *)
imageGptInsert(f, userId, u, fetchOk, insertOk) ==
    IF /\ ~(f.payload.image # undefined /\ IsHttpUrl(f.payload.image) /\ ~fetchOk)
       /\ ~u.thrown
       /\ Or(u.savedImageUrl, undefined) # undefined
       /\ insertOk
    THEN SetToBag({Generation(userId, "image-gpt", Or(u.savedImageUrl, ""),
                              Or(u.savedImageUrl, ""))})
    ELSE EmptyBag

imageGptPost(i, userId, u, fetchOk, insertOk) ==
    /\ fetches[i].key = "imageGpt"
    /\ fetches[i].pc = "sent"
    /\ fetches' = [fetches EXCEPT ![i] =
                     respond(fetches[i], imageGptResponse(fetches[i], u, fetchOk, insertOk))]
    /\ generations' = generations (+)
                         imageGptInsert(fetches[i], userId, u, fetchOk, insertOk)
    /\ UNCHANGED <<pageVars, merges, handler>>

----------------------------------------------------------------------------
(* The page again: a task settles, and handleSubmit resumes after allSettled *)

(* if (!r.ok) throw new Error(await r.text().catch(() => "... request failed")); *)
(* return r.json()                                                               *)
outcomeOf(f, textOk) ==
    IF f.response.ok THEN Fulfilled(f.response.value)
    ELSE Rejected(IF textOk THEN f.response.text
                  ELSE LabelOf(f.key) \o " request failed")

RunOf(assistantId) == CHOOSE n \in 1..Len(runs) : runs[n].assistantId = assistantId

(* startTimes[t.label] ?? performance.now() *)
startTime(assistantId, label, now) ==
    LET st == runs[RunOf(assistantId)].startTimes
    IN IF \E n \in 1..Len(st) : st[n].label = label
       THEN st[CHOOSE n \in 1..Len(st) : st[n].label = label].at
       ELSE now

(* setMessages((prev) => prev.map(...)) of the then or the catch handler *)
settledMessages(assistantId, label, o, now) ==
    [n \in 1..Len(messages) |->
        applyOutcome(messages[n], assistantId, label, o, now,
                     startTime(assistantId, label, now))]

(* settle that waits for the tasks dispatched before it: what C31 rules out *)
settleInOrder(i, textOk) ==
    /\ fetches[i].pc = "responded"
    /\ \A j \in 1..(i - 1) :
          (fetches[j].run = fetches[i].run /\ fetches[j].observed)
             => fetches[j].pc = "settled"
    /\ LET f == fetches[i]
           o == outcomeOf(f, textOk)
       IN \E now \in clock..MaxClock :
            /\ o.ok \/ now = clock
            /\ clock' = now
            /\ messages' = settledMessages(f.run, LabelOf(f.key), o, now)
            /\ fetches' = [fetches EXCEPT ![i] = [@ EXCEPT !.pc = "settled",
                                                           !.response = NoResponse,
                                                           !.outcome = o]]
    /\ UNCHANGED <<prompt, isSignedIn, selectedModels, uploadedImage, loading, error,
                   showLoadingSkeleton, pendingPrompt, redirected, nextId, runs,
                   generations, merges, handler>>

settle(i, textOk) ==
    /\ fetches[i].pc = "responded"
    /\ LET f == fetches[i]
           o == outcomeOf(f, textOk)
       IN \E now \in clock..MaxClock :
            /\ o.ok \/ now = clock
            /\ clock' = now
            /\ messages' = settledMessages(f.run, LabelOf(f.key), o, now)
            /\ fetches' = [fetches EXCEPT ![i] = [@ EXCEPT !.pc = "settled",
                                                           !.response = NoResponse,
                                                           !.outcome = o]]
    /\ UNCHANGED <<prompt, isSignedIn, selectedModels, uploadedImage, loading, error,
                   showLoadingSkeleton, pendingPrompt, redirected, nextId, runs,
                   generations, merges, handler>>

(* allSettled that resolves with the first settled task: what C24 rules out *)
anySettled(assistantId) ==
    \E i \in 1..Len(fetches) :
        fetches[i].run = assistantId /\ fetches[i].observed /\ fetches[i].pc = "settled"

(* every task of the run has settled *)
allSettled(assistantId) ==
    \A i \in 1..Len(fetches) :
        (fetches[i].run = assistantId /\ fetches[i].observed) => fetches[i].pc = "settled"

(* await Promise.allSettled(...); setShowLoadingSkeleton(false); finally setLoading(false) *)
handleSubmitResume(n) ==
    /\ runs[n].awaiting
    /\ allSettled(runs[n].assistantId)
    /\ runs' = [runs EXCEPT ![n].awaiting = FALSE]
    /\ showLoadingSkeleton' = FALSE
    /\ loading' = FALSE
    /\ UNCHANGED <<prompt, isSignedIn, selectedModels, uploadedImage, messages, error,
                   pendingPrompt, redirected, clock, nextId, fetches, generations, merges, handler>>

----------------------------------------------------------------------------
(* The whole program *)

OtherRow == Generation("user_2", "flux-1", "", "https://t3.storage/z.png")
OwnRow == Generation(UserId, "gemini-image-flash", "", "https://t3.storage/y.png")

(* The table when the page opens: a row of another user and the user's own *)
SeedTables ==
    {(OtherRow :> 1) @@ (OwnRow :> k) : k \in (QuotaLimit - MaxHeadroom)..QuotaLimit}

(* auth() on the server: the session's user, or none when it has lapsed *)
AuthResults == {UserId, undefined}

UploadChoices == {undefined, "data:image/png;base64,UU"}

Init ==
    /\ PageInit
    /\ generations \in SeedTables
    /\ merges = 0
    /\ handler = NoHandler

UserInput ==
    \/ \E p \in Prompts : setPrompt(p)
    \/ \E k \in {"gemini", "flux", "imageGpt"} : toggleModel(k)
    \/ \E img \in UploadChoices : setUploadedImage(img)

Submit ==
    \/ handleSubmitBlank
    \/ handleSubmitSignIn
    \/ handleSubmitNoModels
    \/ handleSubmitDispatch

(* The result of a call the handler may not make: drawn only when it makes it *)
ResultsIf(called) == IF called THEN BOOLEAN ELSE {TRUE}

FetchesInputImage(i) ==
    fetches[i].payload.image # undefined /\ IsHttpUrl(fetches[i].payload.image)

Server ==
    \/ \E i \in 1..Len(fetches), userId \in AuthResults :
          \E queryOk \in ResultsIf(userId # undefined) :
             geminiGuard(i, userId, queryOk)
    \/ \E i \in 1..Len(fetches), u \in GeminiStreams :
          \E fetchOk \in ResultsIf(FetchesInputImage(i)),
             insertOk \in ResultsIf(Or(u.savedImageUrl, undefined) # undefined) :
             geminiFinish(i, u, fetchOk, insertOk)
    \/ \E i \in 1..Len(fetches), userId \in AuthResults :
          \E queryOk \in ResultsIf(userId # undefined) :
             fluxGuard(i, userId, queryOk)
    \/ \E i \in 1..Len(fetches), u \in FluxRuns :
          \E insertOk \in ResultsIf(u.end = "Ready") :
             fluxFinish(i, u, insertOk)
    \/ \E i \in 1..Len(fetches), userId \in AuthResults, u \in ImageGptOutputs :
          \E fetchOk \in ResultsIf(FetchesInputImage(i)),
             insertOk \in ResultsIf(Or(u.savedImageUrl, undefined) # undefined) :
             imageGptPost(i, userId, u, fetchOk, insertOk)

Settled ==
    \/ \E i \in 1..Len(fetches) :
          \E textOk \in ResultsIf(~fetches[i].response.ok) : settle(i, textOk)
    \/ \E n \in 1..Len(runs) : handleSubmitResume(n)

Next == UserInput \/ Submit \/ Server \/ Settled

Spec == Init /\ [][Next]_vars

(* The continuation of an await runs once its promise has resolved *)
LiveSpec == Spec /\ WF_vars(\E n \in 1..Len(runs) : handleSubmitResume(n))

----------------------------------------------------------------------------
(* The updaters alone: starting from the turn a dispatch creates, any        *)
(* sequence of then/catch updaters and votes, for any label and any outcome. *)

ModelResponses ==
    {ModelResponse(image, url, text, tk[1], tk[2]) :
        image \in {undefined, "https://t3.storage/a.png"},
        url \in {undefined, "https://bfl.ai/b.png"},
        text \in {undefined, " ", "x"},
        tk \in {<<UndefNum, UndefNum>>, <<3, UndefNum>>, <<UndefNum, 5>>, <<3, 5>>}}

ErrorMessages == {"", "{\"error\":\"Generation failed\"}"}

MergeInit ==
    /\ prompt = ""
    /\ isSignedIn = TRUE
    /\ selectedModels \in {sel \in [{"gemini", "flux", "imageGpt"} -> BOOLEAN] :
                              \E k \in DOMAIN sel : sel[k]}
    /\ uploadedImage = undefined
    /\ messages = <<UserMessage(1, "x"), AssistantMessage(2, tasks)>>
    /\ loading = TRUE
    /\ error = undefined
    /\ showLoadingSkeleton = FALSE
    /\ pendingPrompt = undefined
    /\ redirected = FALSE
    /\ clock = 0
    /\ nextId = 3
    /\ runs = <<[assistantId |-> 2,
                 startTimes |-> [i \in 1..Len(tasks) |-> [label |-> tasks[i], at |-> 0]],
                 awaiting |-> TRUE]>>
    /\ fetches = <<>>
    /\ generations = (OtherRow :> 1)
    /\ merges = 0
    /\ handler = NoHandler

MessageIds == {messages[n].id : n \in 1..Len(messages)}

mergeThen(assistantId, label, value) ==
    /\ merges < MaxMerges
    /\ \E now \in clock..MaxClock :
         /\ clock' = now
         /\ messages' = settledMessages(assistantId, label, Fulfilled(value), now)
    /\ merges' = merges + 1
    /\ UNCHANGED <<prompt, isSignedIn, selectedModels, uploadedImage, loading, error,
                   showLoadingSkeleton, pendingPrompt, redirected, nextId, runs, fetches,
                   generations, handler>>

mergeCatch(assistantId, label, message) ==
    /\ merges < MaxMerges
    /\ messages' = settledMessages(assistantId, label, Rejected(message), clock)
    /\ merges' = merges + 1
    /\ UNCHANGED <<prompt, isSignedIn, selectedModels, uploadedImage, loading, error,
                   showLoadingSkeleton, pendingPrompt, redirected, clock, nextId, runs,
                   fetches, generations, handler>>

(* setMessages((prev) => prev.map(...)) of handleVote *)
handleVote(messageId, label, vote) ==
    /\ merges < MaxMerges
    /\ messages' = [n \in 1..Len(messages) |->
                      handleVoteUpdater(messages[n], messageId, label, vote)]
    /\ merges' = merges + 1
    /\ UNCHANGED <<prompt, isSignedIn, selectedModels, uploadedImage, loading, error,
                   showLoadingSkeleton, pendingPrompt, redirected, clock, nextId, runs,
                   fetches, generations, handler>>

MergeNext ==
    \/ \E id \in MessageIds, label \in Labels, value \in ModelResponses :
          mergeThen(id, label, value)
    \/ \E id \in MessageIds, label \in Labels, message \in ErrorMessages :
          mergeCatch(id, label, message)
    \/ \E id \in MessageIds, label \in Labels, vote \in {"up", "down"} :
          handleVote(id, label, vote)

MergeSpec == MergeInit /\ [][MergeNext]_vars

----------------------------------------------------------------------------
(* Overlapping submissions: the page between the dispatch of one submission *)
(* and the end of the next, with the endpoints seen from the page as the    *)
(* responses their fetches resolve with.                                    *)

MaxOverlap == 2     \* submissions of OverlapSpec, the first one included
MaxSelected == 2    \* models selected in OverlapSpec

(* What a fetch() of the page resolves with: a 2xx body with an image, or a *)
(* non-2xx response with an error body                                      *)
FetchResults ==
    {JsonSuccess(ModelResponse("https://t3.storage/a.png", undefined, undefined,
                               3, UndefNum)),
     JsonError(500, "Generation failed")}

(* The response of a request whose promise is in tasks arrives *)
fetchResolves(i, response) ==
    /\ fetches[i].pc = "sent"
    /\ fetches[i].observed
    /\ fetches' = [fetches EXCEPT ![i] = respond(fetches[i], response)]
    /\ UNCHANGED <<pageVars, generations, merges, handler>>

(* "Use this image" that moves the image out of the branch: what C27 rules out *)
useThisImageMoving(n, j) ==
    /\ messages[n].role = "assistant"
    /\ variantView(messages[n].variants[j]) = "image"
    /\ uploadedImage' = messages[n].variants[j].imageUrl
    /\ messages' = [messages EXCEPT ![n].variants[j].imageUrl = undefined]
    /\ UNCHANGED <<prompt, isSignedIn, selectedModels, loading, error,
                   showLoadingSkeleton, pendingPrompt, redirected, clock, nextId, runs,
                   fetches, generations, merges, handler>>

(* The button on the image of a variant: if (v.imageUrl) setUploadedImage(v.imageUrl) *)
useThisImage(n, j) ==
    /\ messages[n].role = "assistant"
    /\ variantView(messages[n].variants[j]) = "image"
    /\ uploadedImage' = messages[n].variants[j].imageUrl
    /\ UNCHANGED <<prompt, isSignedIn, selectedModels, messages, loading, error,
                   showLoadingSkeleton, pendingPrompt, redirected, clock, nextId, runs,
                   fetches, generations, merges, handler>>

(* handleSubmit while an earlier submission may still be in flight *)
handleSubmitOverlap == Submits < MaxOverlap /\ dispatch

(* The user types the next prompt after a dispatch has cleared the field *)
typeNextPrompt ==
    /\ Submits < MaxOverlap
    /\ prompt = ""
    /\ prompt' = "x"
    /\ UNCHANGED <<isSignedIn, selectedModels, uploadedImage, messages, loading, error,
                   showLoadingSkeleton, pendingPrompt, redirected, clock, nextId, runs,
                   fetches, generations, merges, handler>>

(* The page with the first prompt typed and one or two models selected *)
OverlapInit ==
    /\ prompt = ""
    /\ isSignedIn = TRUE
    /\ selectedModels \in {sel \in [{"gemini", "flux", "imageGpt"} -> BOOLEAN] :
                              Cardinality({k \in DOMAIN sel : sel[k]}) \in 1..MaxSelected}
    /\ uploadedImage = undefined
    /\ messages = <<>>
    /\ loading = FALSE
    /\ error = undefined
    /\ showLoadingSkeleton = FALSE
    /\ pendingPrompt = undefined
    /\ redirected = FALSE
    /\ clock = 0
    /\ nextId = 1
    /\ runs = <<>>
    /\ fetches = <<>>
    /\ generations = (OtherRow :> 1)
    /\ merges = 0
    /\ handler = NoHandler

OverlapNext ==
    \/ typeNextPrompt
    \/ handleSubmitOverlap
    \/ \E i \in 1..Len(fetches), response \in FetchResults : fetchResolves(i, response)
    \/ \E i \in 1..Len(fetches) :
          \E textOk \in ResultsIf(~fetches[i].response.ok) : settle(i, textOk)
    \/ \E n \in 1..Len(runs) : handleSubmitResume(n)
    \/ \E n \in 1..Len(messages) : \E j \in 1..Len(messages[n].variants) : useThisImage(n, j)

OverlapSpec == OverlapInit /\ [][OverlapNext]_vars

(* One submission and the votes on its turn: the page from the first prompt *)
(* to the end of the submission, with the thumbs of the branches            *)
VoteNext ==
    \/ typeNextPrompt
    \/ handleSubmitDispatch
    \/ \E i \in 1..Len(fetches), response \in FetchResults : fetchResolves(i, response)
    \/ \E i \in 1..Len(fetches) :
          \E textOk \in ResultsIf(~fetches[i].response.ok) : settle(i, textOk)
    \/ \E n \in 1..Len(runs) : handleSubmitResume(n)
    \/ \E id \in MessageIds, label \in Labels, vote \in {"up", "down"} :
          handleVote(id, label, vote)

VoteSpec == OverlapInit /\ [][VoteNext]_vars

----------------------------------------------------------------------------
(* One route handler, step by step: a step runs the handler from one await *)
(* to the next await whose result matters.                                  *)

MaxPollAttempts == 120      \* for (let i = 0; i < 120; i++)
PollIntervalMs == 500       \* setTimeout(resolve, 500)
VarcharLength == 255        \* varchar({ length: 255 })

RECURSIVE Repeat(_, _)
Repeat(c, n) == IF n = 0 THEN "" ELSE c \o Repeat(c, n - 1)

(* The request bodies: { prompt?, image?, enhance? } *)
Bodies ==
    {[prompt |-> p, image |-> img, enhance |-> e] :
        p \in {"", "x", " x"}, img \in {undefined, "https://h.example/i.png"}, e \in BOOLEAN}

(* A request arrives: the locals of the handler before its first statement; *)
(* apiKey says whether the credential of the route is in the environment    *)
Handler(route, body, apiKey) ==
    [route |-> route, pc |-> "start", process |-> "running", body |-> body,
     apiKey |-> apiKey, userId |-> undefined, prompt |-> body.prompt,
     rewrite |-> "none", upstreamCalls |-> 0, i |-> 0, polls |-> 0, waitedMs |-> 0,
     lastPoll |-> "none",
     upstreamPrompt |-> undefined, stream |-> <<>>, chunks |-> <<>>,
     savedImageUrl |-> undefined, fullText |-> "", totalTokenCount |-> UndefNum,
     faults |-> {}, response |-> NoResponse]

(* What went wrong around the handler so far: "rewrite", "inputImage",     *)
(* "upstream", "storage", "db" (kept to tell the causes of a failure apart) *)
fault(h, name, happened) == IF happened THEN [h EXCEPT !.faults = @ \cup {name}] ELSE h

(* return NextResponse.json(...): the handler ends with this response *)
return(h, response) == [h EXCEPT !.pc = "done", !.response = response]

(* auth and the rate limit of the Gemini and Flux-1 routes *)
guard(h, userId, queryOk) ==
    IF userId = undefined THEN return(h, JsonError(401, "Unauthorized"))
    ELSE IF queryOk /\ limitReached(userId)
    THEN return(h, JsonError(429, "You have reached the limit of 10 image generations."))
    ELSE [h EXCEPT !.pc = "guarded", !.userId = userId]

(* A row is stored when the database answers and every varchar column fits *)
insertFits(promptText, row) ==
    /\ Len(promptText) <= VarcharLength
    /\ Len(row.inputImageUrl) <= VarcharLength
    /\ Len(row.outputImageUrl) <= VarcharLength

----------------------------------------------------------------------------
(* POST /api/flux-1, step by step *)

FluxDefaultPrompt == "A small furry elephant pet looks out from a cat house"

(* the key check, auth, the rate limit *)
fluxStart(userId, queryOk) ==
    /\ handler.route = "flux" /\ handler.pc = "start"
    /\ handler' =
         IF ~handler.apiKey THEN return(handler, JsonError(500, "Missing BFL_API_KEY"))
         ELSE LET g == guard(handler, userId, queryOk)
              IN IF g.pc = "guarded"
                 THEN [g EXCEPT !.prompt = Or(handler.body.prompt, FluxDefaultPrompt)]
                 ELSE g
    /\ UNCHANGED <<pageVars, fetches, generations, merges>>

(* What the fetch of /api/text-to-prompt gives enhancePromptExternally *)
ExternalRewrites ==
    {[thrown |-> TRUE, ok |-> FALSE, prompt |-> undefined],
     [thrown |-> FALSE, ok |-> FALSE, prompt |-> undefined],
     [thrown |-> FALSE, ok |-> TRUE, prompt |-> undefined],
     [thrown |-> FALSE, ok |-> TRUE, prompt |-> " "],
     [thrown |-> FALSE, ok |-> TRUE, prompt |-> " y "]}

(* enhancePromptExternally without its fallback: what C18 rules out *)
enhancePromptExternallyNoFallback(promptText, r) ==
    IF r.thrown \/ ~r.ok \/ r.prompt = undefined THEN "" ELSE trim(r.prompt)

enhancePromptExternally(promptText, r) ==
    IF r.thrown THEN promptText
    ELSE IF ~r.ok THEN promptText
    ELSE IF r.prompt # undefined /\ Len(trim(r.prompt)) > 0 THEN trim(r.prompt)
    ELSE promptText

(* The rewrite step did not produce a prompt *)
externalRewriteFailed(r) ==
    r.thrown \/ ~r.ok \/ r.prompt = undefined \/ Len(trim(r.prompt)) = 0

(* if (enhance && prompt.trim().length > 0) { try { prompt = await ... } catch {} } *)
fluxEnhance(r) ==
    /\ handler.route = "flux" /\ handler.pc = "guarded"
    /\ handler' =
         IF handler.body.enhance /\ Len(trim(handler.prompt)) > 0
         THEN [fault(handler, "rewrite", externalRewriteFailed(r)) EXCEPT
                  !.pc = "enhanced",
                  !.prompt = enhancePromptExternally(handler.prompt, r),
                  !.rewrite = IF externalRewriteFailed(r) THEN "failed" ELSE "done"]
         ELSE [handler EXCEPT !.pc = "enhanced"]
    /\ UNCHANGED <<pageVars, fetches, generations, merges>>

(* What the submit to BFL answers *)
FluxSubmits ==
    {[thrown |-> TRUE, ok |-> FALSE, polling_url |-> undefined],
     [thrown |-> FALSE, ok |-> FALSE, polling_url |-> undefined],
     [thrown |-> FALSE, ok |-> TRUE, polling_url |-> undefined],
     [thrown |-> FALSE, ok |-> TRUE, polling_url |-> "https://api.bfl.ai/v1/get_result?id=1"]}

fluxSubmit(r) ==
    /\ handler.route = "flux" /\ handler.pc = "enhanced"
    /\ handler' =
         LET h == [fault(handler, "upstream", r.thrown \/ ~r.ok \/ ~Truthy(r.polling_url))
                      EXCEPT !.upstreamCalls = @ + 1, !.upstreamPrompt = handler.prompt]
         IN IF r.thrown THEN return(h, Uncaught)
            ELSE IF ~r.ok THEN return(h, fluxResponse([end |-> "submitFailed"], TRUE))
            ELSE IF ~Truthy(r.polling_url)
            THEN return(h, fluxResponse([end |-> "noPollingUrl"], TRUE))
            ELSE [h EXCEPT !.pc = "polling", !.i = 0]
    /\ UNCHANGED <<pageVars, fetches, generations, merges>>

(* What a poll of the polling URL answers *)
FluxPolls ==
    {[thrown |-> TRUE, ok |-> FALSE, status |-> undefined, originalImageUrl |-> undefined],
     [thrown |-> FALSE, ok |-> FALSE, status |-> undefined, originalImageUrl |-> undefined],
     [thrown |-> FALSE, ok |-> TRUE, status |-> undefined, originalImageUrl |-> undefined],
     [thrown |-> FALSE, ok |-> TRUE, status |-> "Pending", originalImageUrl |-> undefined],
     [thrown |-> FALSE, ok |-> TRUE, status |-> "Ready",
      originalImageUrl |-> "https://bfl.ai/f.png"],
     [thrown |-> FALSE, ok |-> TRUE, status |-> "Succeeded",
      originalImageUrl |-> "https://bfl.ai/f.png"],
     [thrown |-> FALSE, ok |-> TRUE, status |-> "Ready", originalImageUrl |-> undefined],
     [thrown |-> FALSE, ok |-> TRUE, status |-> "Failed", originalImageUrl |-> undefined],
     [thrown |-> FALSE, ok |-> TRUE, status |-> "Error", originalImageUrl |-> undefined]}

okStatuses == {"Ready", "Completed", "Complete", "Success", "Succeeded"}

(* i < 120, off by one: what C14 rules out *)
fluxLoopContinuesOneMore(i) == i <= MaxPollAttempts

(* i < 120 *)
fluxLoopContinues(i) == i < MaxPollAttempts

(* What uploadFile gives for the image of the provider: a URL, or none *)
FluxUploads == {"https://t3.storage/f.png", undefined}

(* One iteration of the loop: the wait, the poll, and what follows it *)
fluxPoll(r, uploaded, dbOk) ==
    /\ handler.route = "flux" /\ handler.pc = "polling"
    /\ fluxLoopContinues(handler.i)
    /\ LET ready == ~r.thrown /\ r.ok /\ r.status \in okStatuses
           h0 == [handler EXCEPT !.polls = @ + 1, !.waitedMs = @ + PollIntervalMs,
                                 !.lastPoll = IF r.thrown THEN "thrown"
                                              ELSE IF ~r.ok THEN "non-2xx" ELSE r.status]
           h1 == fault(h0, "upstream", r.thrown \/ ~r.ok \/ r.status \in {"Error", "Failed"}
                                          \/ (ready /\ ~Truthy(r.originalImageUrl)))
           h2 == fault(h1, "storage", ready /\ Truthy(r.originalImageUrl)
                                         /\ uploaded = undefined)
           h == fault(h2, "db", ready /\ ~dbOk)
           f == [userId |-> h.userId, payload |-> h.body]
           u == [end |-> "Ready", originalImageUrl |-> r.originalImageUrl,
                 uploaded |-> IF Truthy(r.originalImageUrl) THEN uploaded ELSE undefined]
           row == Generation(h.userId, "flux-1", Or(h.body.image, ""),
                             Or(Or(fluxSavedImageUrl(u), u.originalImageUrl), ""))
           insertOk == dbOk /\ insertFits(h.prompt, row)
       IN IF r.thrown
          THEN handler' = return(h, Uncaught) /\ generations' = generations
          ELSE IF ~r.ok
          THEN /\ handler' = return(h, fluxResponse([end |-> "pollFailed"], TRUE))
               /\ generations' = generations
          ELSE IF r.status \in okStatuses
          THEN /\ handler' = return(h, fluxResponse(u, insertOk))
               /\ generations' = generations (+) fluxInsert(f, u, insertOk)
          ELSE IF r.status \in {"Error", "Failed"}
          THEN /\ handler' = return(h, fluxResponse([end |-> "Failed"], TRUE))
               /\ generations' = generations
          ELSE /\ handler' = IF fluxLoopContinues(h.i + 1) THEN [h EXCEPT !.i = @ + 1]
                             ELSE return([fault(h, "upstream", TRUE) EXCEPT !.i = @ + 1],
                                         fluxResponse([end |-> "timeout"], TRUE))
               /\ generations' = generations
    /\ UNCHANGED <<pageVars, fetches, merges>>

FluxNext ==
    \/ \E userId \in AuthResults : \E queryOk \in ResultsIf(userId # undefined) :
          fluxStart(userId, queryOk)
    \/ \E r \in ExternalRewrites : fluxEnhance(r)
    \/ \E r \in FluxSubmits : fluxSubmit(r)
    \/ \E r \in FluxPolls, uploaded \in FluxUploads, dbOk \in BOOLEAN :
          fluxPoll(r, uploaded, dbOk)

----------------------------------------------------------------------------
(* POST /api/gemini-image-flash, step by step *)

(* the key check (process.exit(1) ends the server process), auth, rate limit *)
geminiStart(userId, queryOk) ==
    /\ handler.route = "gemini" /\ handler.pc = "start"
    /\ handler' =
         IF ~handler.apiKey THEN [handler EXCEPT !.pc = "exited", !.process = "exited"]
         ELSE guard(handler, userId, queryOk)
    /\ UNCHANGED <<pageVars, fetches, generations, merges>>

(* What generateContent gives enhancePromptWithGemini: response.text(), the *)
(* joined parts of the first candidate, and result.text || result.content   *)
GeminiRewrites ==
    {[thrown |-> TRUE, responseText |-> undefined, partsText |-> undefined,
      fallback |-> undefined],
     [thrown |-> FALSE, responseText |-> undefined, partsText |-> undefined,
      fallback |-> undefined],
     [thrown |-> FALSE, responseText |-> " ", partsText |-> "", fallback |-> " "],
     [thrown |-> FALSE, responseText |-> " y ", partsText |-> undefined,
      fallback |-> undefined],
     [thrown |-> FALSE, responseText |-> undefined, partsText |-> " y ",
      fallback |-> undefined],
     [thrown |-> FALSE, responseText |-> undefined, partsText |-> undefined,
      fallback |-> " y "]}

(* The rewrite step did not produce a prompt *)
geminiRewriteFailed(r) ==
    \/ r.thrown
    \/ /\ ~(r.responseText # undefined /\ Len(trim(r.responseText)) > 0)
       /\ ~(r.partsText # undefined /\ Len(trim(r.partsText)) > 0)
       /\ ~(r.fallback # undefined /\ Len(trim(r.fallback)) > 0)

enhancePromptWithGemini(promptText, r) ==
    IF r.thrown THEN promptText
    ELSE IF r.responseText # undefined /\ Len(trim(r.responseText)) > 0
    THEN trim(r.responseText)
    ELSE IF r.partsText # undefined /\ Len(trim(r.partsText)) > 0 THEN trim(r.partsText)
    ELSE IF r.fallback # undefined /\ Len(trim(r.fallback)) > 0 THEN trim(r.fallback)
    ELSE promptText

(* if (enhance && promptText.trim().length > 0) { try { const improved = ...; *)
(*   if (improved.trim().length > 0) promptText = improved.trim(); } catch {} } *)
geminiEnhance(r) ==
    /\ handler.route = "gemini" /\ handler.pc = "guarded"
    /\ handler' =
         IF handler.body.enhance /\ Len(trim(handler.prompt)) > 0
         THEN LET improved == enhancePromptWithGemini(handler.prompt, r)
              IN [fault(handler, "rewrite", geminiRewriteFailed(r)) EXCEPT
                     !.pc = "enhanced",
                     !.prompt = IF Len(trim(improved)) > 0 THEN trim(improved) ELSE @,
                     !.rewrite = IF geminiRewriteFailed(r) THEN "failed" ELSE "done"]
         ELSE [handler EXCEPT !.pc = "enhanced"]
    /\ UNCHANGED <<pageVars, fetches, generations, merges>>

(* The payload of an inline image: a few bytes, or more than a column holds *)
ShortData == "QQ"
LongData == Repeat("A", VarcharLength - 15)

(* The chunks a stream can deliver: "skip" is a chunk without candidates,   *)
(* content or parts, tokens its usageMetadata.totalTokenCount, and "thrown" *)
(* is the iterator throwing                                                 *)
GeminiChunks ==
    {[kind |-> "skip", data |-> undefined, text |-> undefined, tokens |-> UndefNum],
     [kind |-> "skip", data |-> undefined, text |-> undefined, tokens |-> 9],
     [kind |-> "inline", data |-> ShortData, text |-> undefined, tokens |-> UndefNum],
     [kind |-> "inline", data |-> LongData, text |-> undefined, tokens |-> 7],
     [kind |-> "text", data |-> undefined, text |-> "x", tokens |-> 7],
     [kind |-> "text", data |-> undefined, text |-> " ", tokens |-> UndefNum],
     [kind |-> "thrown", data |-> undefined, text |-> undefined, tokens |-> UndefNum]}

GeminiChunkStreams == UNION {[1..n -> GeminiChunks] : n \in 0..MaxChunks}

(* `data:${mimeType};base64,${inlineData.data}` *)
DataUrl(data) == "data:image/png;base64," \o data

(* The public URL of the stored file *)
StoredUrl(data) == "https://t3.storage/" \o SubSeq(data, 1, 2) \o ".png"

(* uploadFile: returns the URL, returns no URL, or throws *)
UploadResults == {"url", "none", "thrown"}

(* url || dataUrl, and dataUrl in the catch *)
savedOrDataUrl(data, up) == IF up = "url" THEN StoredUrl(data) ELSE DataUrl(data)

(* the input image, then await ai.models.generateContentStream(...) *)
geminiInput(fetchOk, thrown, stream) ==
    /\ handler.route = "gemini" /\ handler.pc = "enhanced"
    /\ handler' =
         IF Truthy(handler.body.image) /\ IsHttpUrl(handler.body.image) /\ ~fetchOk
         THEN return(fault(handler, "inputImage", TRUE), Uncaught)
         ELSE LET h == [fault(handler, "upstream", thrown) EXCEPT
                           !.upstreamCalls = @ + 1, !.upstreamPrompt = handler.prompt]
              IN IF thrown THEN return(h, Uncaught)
                 ELSE [h EXCEPT !.pc = "streaming", !.stream = stream, !.chunks = stream]
    /\ UNCHANGED <<pageVars, fetches, generations, merges>>

(* one iteration of for await (const chunk of response) *)
geminiChunk(up) ==
    /\ handler.route = "gemini" /\ handler.pc = "streaming"
    /\ handler.chunks # <<>>
    /\ handler' =
         LET c == Head(handler.chunks)
             h == [handler EXCEPT !.chunks = Tail(@)]
         IN IF c.kind = "thrown" THEN return(fault(h, "upstream", TRUE), Uncaught)
            ELSE IF c.kind = "skip" THEN h
            ELSE LET t == [h EXCEPT !.totalTokenCount =
                                      IF c.tokens # UndefNum THEN c.tokens ELSE @]
                 IN IF c.kind = "inline"
                    THEN [fault(t, "storage", up # "url") EXCEPT
                             !.savedImageUrl = savedOrDataUrl(c.data, up)]
                    ELSE [t EXCEPT !.fullText = @ \o c.text]
    /\ UNCHANGED <<pageVars, fetches, generations, merges>>

(* after the loop: the insert and the response *)
geminiEnd(dbOk) ==
    /\ handler.route = "gemini" /\ handler.pc = "streaming"
    /\ handler.chunks = <<>>
    /\ LET u == [thrown |-> FALSE, savedImageUrl |-> handler.savedImageUrl,
                 fullText |-> handler.fullText,
                 totalTokenCount |-> handler.totalTokenCount]
           f == [userId |-> handler.userId, payload |-> handler.body]
           row == Generation(handler.userId, "gemini-image-flash",
                             Or(handler.body.image, ""), Or(handler.savedImageUrl, ""))
           insertOk == dbOk /\ insertFits(handler.prompt, row)
           h1 == fault(handler, "db", Truthy(handler.savedImageUrl) /\ ~dbOk)
           h == fault(h1, "upstream", ~Truthy(handler.savedImageUrl)
                                         /\ Len(trim(handler.fullText)) = 0)
       IN /\ handler' = return(h, geminiResponse(u, insertOk))
          /\ generations' = generations (+) geminiInsert(f, u, insertOk)
    /\ UNCHANGED <<pageVars, fetches, merges>>

GeminiNext ==
    \/ \E userId \in AuthResults : \E queryOk \in ResultsIf(userId # undefined) :
          geminiStart(userId, queryOk)
    \/ \E r \in GeminiRewrites : geminiEnhance(r)
    \/ \E fetchOk \in BOOLEAN, thrown \in BOOLEAN, stream \in GeminiChunkStreams :
          geminiInput(fetchOk, thrown, stream)
    \/ \E up \in UploadResults : geminiChunk(up)
    \/ \E dbOk \in ResultsIf(Truthy(handler.savedImageUrl)) : geminiEnd(dbOk)

----------------------------------------------------------------------------
(* POST /api/image-gpt, step by step *)

(* the key check, auth() (not tested), the input image *)
imageGptStart(userId, fetchOk) ==
    /\ handler.route = "imageGpt" /\ handler.pc = "start"
    /\ handler' =
         IF ~handler.apiKey
         THEN return(handler,
                     JsonError(500, "Server misconfiguration: missing OPENAI_API_KEY"))
         ELSE IF Truthy(handler.body.image) /\ IsHttpUrl(handler.body.image) /\ ~fetchOk
         THEN return(fault([handler EXCEPT !.userId = userId], "inputImage", TRUE),
                     imageGptResponse([payload |-> handler.body], [thrown |-> FALSE],
                                      FALSE, TRUE))
         ELSE [handler EXCEPT !.pc = "guarded", !.userId = userId]
    /\ UNCHANGED <<pageVars, fetches, generations, merges>>

(* What openai.responses.create gives: it throws, or the first image of the *)
(* output (base64), the joined output_text and usage.total_tokens           *)
ImageGptCreates ==
    {[thrown |-> TRUE, data |-> undefined, fullText |-> "", totalTokens |-> UndefNum],
     [thrown |-> FALSE, data |-> undefined, fullText |-> "", totalTokens |-> UndefNum],
     [thrown |-> FALSE, data |-> undefined, fullText |-> "x", totalTokens |-> 9],
     [thrown |-> FALSE, data |-> ShortData, fullText |-> "x", totalTokens |-> 9],
     [thrown |-> FALSE, data |-> LongData, fullText |-> "", totalTokens |-> UndefNum]}

(* try { responses.create; upload; insert; respond } catch { 500 } *)
imageGptCreate(r, up, dbOk) ==
    /\ handler.route = "imageGpt" /\ handler.pc = "guarded"
    /\ LET saved == IF Truthy(r.data) THEN savedOrDataUrl(r.data, up) ELSE undefined
           u == [thrown |-> r.thrown, savedImageUrl |-> saved, fullText |-> r.fullText,
                 totalTokens |-> r.totalTokens]
           f == [payload |-> handler.body]
           row == Generation(handler.userId, "image-gpt", Or(saved, ""), Or(saved, ""))
           insertOk == dbOk /\ insertFits(handler.prompt, row)
           h0 == [handler EXCEPT !.upstreamCalls = @ + 1, !.upstreamPrompt = handler.prompt,
                                 !.savedImageUrl = saved, !.fullText = r.fullText]
           h1 == fault(h0, "upstream", r.thrown \/ (~Truthy(r.data)
                                                      /\ Len(trim(r.fullText)) = 0))
           h2 == fault(h1, "storage", Truthy(r.data) /\ up # "url")
           h == fault(h2, "db", Truthy(r.data) /\ ~dbOk)
       IN /\ handler' = return(h, imageGptResponse(f, u, TRUE, insertOk))
          /\ generations' = generations (+)
                               imageGptInsert(f, handler.userId, u, TRUE, insertOk)
    /\ UNCHANGED <<pageVars, fetches, merges>>

ImageGptNext ==
    \/ \E userId \in AuthResults, fetchOk \in BOOLEAN : imageGptStart(userId, fetchOk)
    \/ \E r \in ImageGptCreates, up \in UploadResults, dbOk \in BOOLEAN :
          imageGptCreate(r, up, dbOk)

----------------------------------------------------------------------------
(* POST /api/veo3, step by step *)

VeoIntervalMs == 10000      \* setTimeout(resolve, 10000)

(* What generateVideos and getVideosOperation answer: the operation *)
VeoOperations ==
    {[thrown |-> TRUE, done |-> FALSE], [thrown |-> FALSE, done |-> FALSE],
     [thrown |-> FALSE, done |-> TRUE]}

(* catch (err) { return NextResponse.json({ error: message }, { status: 500 }) } *)
veoCaught(h, message) == return(h, JsonError(500, message))

(* the prompt check and let operation = await ai.models.generateVideos(...) *)
veoStart(r) ==
    /\ handler.route = "veo3" /\ handler.pc = "start"
    /\ handler' =
         IF ~Truthy(handler.prompt) THEN return(handler, JsonError(400, "Missing prompt"))
         ELSE LET h == [fault(handler, "upstream", r.thrown) EXCEPT
                           !.upstreamCalls = @ + 1, !.upstreamPrompt = handler.prompt]
              IN IF r.thrown THEN veoCaught(h, "generateVideos failed")
                 ELSE [h EXCEPT !.pc = IF r.done THEN "finishing" ELSE "polling"]
    /\ UNCHANGED <<pageVars, fetches, generations, merges>>

(* while (!operation.done) { await wait(10000); operation = await get...() } *)
veoPoll(r) ==
    /\ handler.route = "veo3" /\ handler.pc = "polling"
    /\ handler.polls < MaxVeoPolls
    /\ handler' =
         LET h == [fault(handler, "upstream", r.thrown) EXCEPT
                      !.polls = @ + 1, !.waitedMs = @ + VeoIntervalMs]
         IN IF r.thrown THEN veoCaught(h, "getVideosOperation failed")
            ELSE [h EXCEPT !.pc = IF r.done THEN "finishing" ELSE "polling"]
    /\ UNCHANGED <<pageVars, fetches, generations, merges>>

(* What the finished operation holds, and how fetching and storing it goes *)
VeoResults ==
    {[response |-> FALSE, uri |-> undefined, fetchOk |-> FALSE, url |-> undefined],
     [response |-> TRUE, uri |-> undefined, fetchOk |-> FALSE, url |-> undefined],
     [response |-> TRUE, uri |-> "https://g.example/v", fetchOk |-> FALSE, url |-> undefined],
     [response |-> TRUE, uri |-> "https://g.example/v", fetchOk |-> TRUE, url |-> undefined],
     [response |-> TRUE, uri |-> "https://g.example/v", fetchOk |-> TRUE,
      url |-> "https://t3.storage/v.mp4"]}

(* if (operation?.response) {...} else throw; return NextResponse.json({ url }) *)
veoFinish(r) ==
    /\ handler.route = "veo3" /\ handler.pc = "finishing"
    /\ handler' =
         IF ~r.response THEN veoCaught(fault(handler, "upstream", TRUE), "No videos generated")
         ELSE IF ~Truthy(r.uri)
         THEN veoCaught(fault(handler, "upstream", TRUE), "Empty video URI")
         ELSE IF ~r.fetchOk
         THEN veoCaught(fault(handler, "upstream", TRUE), "Failed to fetch video: 404")
         ELSE return(fault(handler, "storage", ~Truthy(r.url)), Response(TRUE, 200,
                         ModelResponse(undefined, Or(r.url, ""), undefined,
                                       UndefNum, UndefNum), undefined))
    /\ UNCHANGED <<pageVars, fetches, generations, merges>>

VeoNext ==
    \/ \E r \in VeoOperations : veoStart(r)
    \/ \E r \in VeoOperations : veoPoll(r)
    \/ \E r \in VeoResults : veoFinish(r)

----------------------------------------------------------------------------
(* The route handlers alone: one request to one of the routes, any body,    *)
(* with or without the credential of the route in the environment           *)

Routes == {"gemini", "flux", "imageGpt", "veo3"}

RouteInit ==
    /\ PageInit
    /\ generations \in SeedTables
    /\ merges = 0
    /\ handler \in {Handler(route, body, apiKey) :
                       route \in Routes, body \in Bodies, apiKey \in BOOLEAN}

RouteNext == GeminiNext \/ FluxNext \/ ImageGptNext \/ VeoNext

RouteSpec == RouteInit /\ [][RouteNext]_vars

----------------------------------------------------------------------------
(* Properties of the updaters (MergeSpec) *)

(* The assistant turn the updaters of MergeSpec work on *)
Turn == messages[2]

LabelsOfTurn(m) == {m.variants[j].label : j \in 1..Len(m.variants)}

Outcomes ==
    {Fulfilled(value) : value \in ModelResponses} \cup
    {Rejected(message) : message \in ErrorMessages}

(* The turn after the updater of outcome o for the given label, read at now *)
Merged(m, label, o, now) ==
    applyOutcome(m, m.id, label, o, now, startTime(m.id, label, now))

C2_SiblingsUntouched ==
    \A label \in Labels, o \in Outcomes, now \in clock..MaxClock :
        LET after == Merged(Turn, label, o, now)
        IN /\ Len(after.variants) = Len(Turn.variants)
           /\ \A j \in 1..Len(Turn.variants) :
                Turn.variants[j].label # label =>
                    after.variants[j] = Turn.variants[j]

(* C2 witness: a turn of several branches in which one branch has received *)
(* its outcome while a sibling that holds a vote is otherwise as created.   *)
C2_Witness ==
    /\ merges = MaxMerges
    /\ \E i \in 1..Len(Turn.variants), j \in 1..Len(Turn.variants) :
         /\ i # j
         /\ Turn.variants[i].imageUrl # undefined
         /\ Turn.variants[i].durationMs # UndefNum
         /\ Turn.variants[j] = [Variant(Turn.variants[j].label) EXCEPT !.vote = "up"]

(* C9: merging a Failure outcome for provider P sets the text of P's branch *)
(* to the error message and changes nothing else in the turn: the content   *)
(* and every other branch are as before, for every P including Image-GPT.   *)
C9_FailureTouchesOnlyBranchText ==
    [][\A label \in LabelsOfTurn(Turn), message \in ErrorMessages :
          (merges' = merges + 1
             /\ messages'[2] = Merged(Turn, label, Rejected(message), clock))
              => messages'[2] = [Turn EXCEPT !.variants =
                                  [j \in 1..Len(Turn.variants) |->
                                      IF Turn.variants[j].label = label
                                      THEN [Turn.variants[j] EXCEPT !.text = message]
                                      ELSE Turn.variants[j]]]]_vars

----------------------------------------------------------------------------
(* Properties of the page and the endpoints (Spec) *)

(* The user's rows with status completed *)
CompletedOf(userId) ==
    LET own == {g \in DOMAIN generations : g.userId = userId /\ g.status = "completed"}
    IN BagCardinality([g \in own |-> generations[g]])

AssistantCount(msgs) == Len(SeqFilter(LAMBDA m : m.role = "assistant", msgs))

NoneSelected == \A k \in DOMAIN selectedModels : ~selectedModels[k]

FetchesOfRun(assistantId) == {i \in 1..Len(fetches) : fetches[i].run = assistantId}

(* The variant of a fetch's provider in the turn of its run *)
VariantOf(msgs, f) ==
    LET m == msgs[CHOOSE n \in 1..Len(msgs) : msgs[n].id = f.run]
    IN m.variants[CHOOSE j \in 1..Len(m.variants) : m.variants[j].label = LabelOf(f.key)]

TurnOf(msgs, assistantId) == msgs[CHOOSE n \in 1..Len(msgs) : msgs[n].id = assistantId]

(* C3: on a submission a request goes to a provider endpoint if and only if *)
(* that provider is selected at dispatch time, so the number of requests    *)
(* issued equals the number of selected providers.                          *)
C3_RequestsOnlyForSelected ==
    \A n \in 1..Len(runs) :
        /\ \A i \in FetchesOfRun(runs[n].assistantId) : fetches[i].observed
        /\ Cardinality(FetchesOfRun(runs[n].assistantId)) = Len(runs[n].startTimes)

(* C4: a submission rejected by validation (whitespace-only prompt, or no   *)
(* provider selected) issues no request and creates no assistant turn and   *)
(* no branch; with no provider selected the only change of the turn list is *)
(* the appended user message, and the single error is set.                  *)
C4_RejectedSubmissionHasNoEffect ==
    [][/\ Len(trim(prompt)) = 0 =>
             /\ Len(fetches') = Len(fetches)
             /\ Len(messages') = Len(messages)
       /\ NoneSelected =>
             /\ Len(fetches') = Len(fetches)
             /\ Len(messages') # Len(messages) =>
                   /\ messages' = Append(messages, UserMessage(nextId, prompt))
                   /\ error' = "Select at least one model"
                   /\ runs' = runs]_vars

(* C4 witness: the submission with nothing selected has been rejected *)
C4_Witness ==
    /\ NoneSelected
    /\ error = "Select at least one model"
    /\ Len(messages) = 1
    /\ messages[1].role = "user"
    /\ fetches = <<>>
    /\ ~loading

(* C5: the quota guard of a generation endpoint rejects a request with 429  *)
(* exactly when the requesting user already has 10 or more rows with status *)
(* completed: 9 are allowed, 10 are rejected, 11 or more are rejected.      *)
C5_GuardRejectsExactlyAtLimit ==
    [][\A i \in 1..Len(fetches) :
          (/\ fetches[i].key \in {"gemini", "flux"}
           /\ fetches[i].pc = "sent"
           /\ fetches'[i].pc # "sent"
           /\ fetches'[i].status # 401)
              => (fetches'[i].status = 429 <=> CompletedOf(UserId) >= QuotaLimit)]_vars

(* C6: for every endpoint (Gemini, Flux-1, Image-GPT) a request of a user   *)
(* who already has 10 or more completed rows ends in a rate-limit rejection *)
(* with no call of the upstream provider and no row inserted.               *)
C6_OverQuotaRejectedEverywhere ==
    [][\A i \in 1..Len(fetches) :
          (/\ fetches[i].pc = "sent"
           /\ fetches'[i].pc # "sent"
           /\ fetches'[i].status # 401
           /\ CompletedOf(UserId) >= QuotaLimit)
              => (fetches'[i].status = 429 /\ generations' = generations)]_vars

(* C7: the quota check comes before the fan-out and a rejection             *)
(* short-circuits the whole submission: when the user is over quota no      *)
(* provider is dispatched and no assistant turn with branches is created.   *)
C7_QuotaBeforeFanOut ==
    [][CompletedOf(UserId) >= QuotaLimit =>
          /\ Len(fetches') = Len(fetches)
          /\ AssistantCount(messages') = AssistantCount(messages)]_vars

(* The run of a fetch, and the observed fetches of a run *)
TasksOfRun(assistantId) ==
    {i \in FetchesOfRun(assistantId) : fetches[i].observed}

(* The branch of fetch f holds exactly the outcome of f: as created until  *)
(* the task settles, then the merge of its own outcome into the branch as  *)
(* created, whatever the other tasks of the run did.                        *)
HoldsOwnOutcome(msgs, f, run) ==
    LET label == LabelOf(f.key)
        start == run.startTimes[CHOOSE n \in 1..Len(run.startTimes) :
                                    run.startTimes[n].label = label].at
    IN IF f.pc # "settled" THEN VariantOf(msgs, f) = Variant(label)
       ELSE IF f.outcome.ok
            THEN \E now \in start..MaxClock :
                    VariantOf(msgs, f) =
                        thenVariant(Variant(label), label, f.outcome.value, now, start)
            ELSE VariantOf(msgs, f) = [Variant(label) EXCEPT !.text = f.outcome.message]

(* A task of the run has failed *)
SomeTaskFailed(fs, assistantId) ==
    \E i \in 1..Len(fs) :
        /\ fs[i].run = assistantId /\ fs[i].observed
        /\ fs[i].pc = "settled" /\ ~fs[i].outcome.ok

(* C8: failures are isolated per branch: when the task of one dispatched    *)
(* provider fails, every other dispatched branch still receives exactly its *)
(* own outcome, the request-level error is not set, and no error turn is    *)
(* appended, neither when the task fails nor when the submission resumes.   *)
C8_FailuresIsolatedPerBranch ==
    [][\A n \in 1..Len(runs') :
          LET run == runs'[n]
          IN /\ \A i \in 1..Len(fetches') :
                   (fetches'[i].run = run.assistantId /\ fetches'[i].observed)
                       => HoldsOwnOutcome(messages', fetches'[i], run)
             /\ SomeTaskFailed(fetches', run.assistantId)
                   => /\ error' = undefined
                      /\ Len(messages') = 2 * Len(runs')
                      /\ AssistantCount(messages') = Len(runs')]_vars

(* C8 witness: a submission has resumed after one of its tasks failed and   *)
(* another delivered an image; the error is unset and the list of turns is  *)
(* the user message and the one assistant turn.                             *)
C8_Witness ==
    \E n \in 1..Len(runs) :
        /\ ~runs[n].awaiting
        /\ ~loading
        /\ error = undefined
        /\ Len(messages) = 2
        /\ \E i \in TasksOfRun(runs[n].assistantId), j \in TasksOfRun(runs[n].assistantId) :
              /\ ~fetches[i].outcome.ok
              /\ VariantOf(messages, fetches[i]).text = fetches[i].outcome.message
              /\ fetches[j].outcome.ok
              /\ VariantOf(messages, fetches[j]).imageUrl # undefined
              /\ VariantOf(messages, fetches[j]).text = undefined

(* C10: for a request dispatched to two image providers A and B where A     *)
(* succeeds with an image and B fails, in either completion order the final *)
(* turn has A's image on A's branch, B's error message as the text of B's   *)
(* branch, and an empty turn-level content.                                  *)
C10_ImageAndFailureBothOrders ==
    \A n \in 1..Len(runs) :
        LET id == runs[n].assistantId
        IN (~runs[n].awaiting /\ Cardinality(TasksOfRun(id)) = 2) =>
              \A a \in TasksOfRun(id), b \in TasksOfRun(id) :
                  (/\ fetches[a].outcome.ok
                   /\ Or(fetches[a].outcome.value.image, fetches[a].outcome.value.url)
                         # undefined
                   /\ thenText(fetches[a].outcome.value) = undefined
                   /\ ~fetches[b].outcome.ok)
                      => /\ VariantOf(messages, fetches[a]).imageUrl =
                               Or(fetches[a].outcome.value.image,
                                  fetches[a].outcome.value.url)
                         /\ VariantOf(messages, fetches[b]).text = fetches[b].outcome.message
                         /\ TurnOf(messages, id).content \in {undefined, ""}

----------------------------------------------------------------------------
(* Properties of the chat view (Spec) *)

(* The tasks of the page that have settled *)
SettledTasks ==
    {i \in 1..Len(fetches) : fetches[i].observed /\ fetches[i].pc = "settled"}

OutcomeImage(o) == Or(o.value.image, o.value.url)

(* C11: a failed branch is visible with its error text: for every branch    *)
(* whose outcome is a failure with a non-empty message, the rendered view   *)
(* shows that message, in the slot of the branch or in the turn body.       *)
C11_FailureTextIsShown ==
    \A i \in SettledTasks :
        (~fetches[i].outcome.ok /\ Truthy(fetches[i].outcome.message))
            => fetches[i].outcome.message \in shownTexts(TurnOf(messages, fetches[i].run))

(* C12: once the task of a branch has settled the branch is never rendered  *)
(* as a loading placeholder; a branch whose settled outcome carries neither *)
(* an image nor a non-empty text is hidden, not shown as pending.           *)
C12_SettledNeverPlaceholder ==
    \A i \in SettledTasks :
        LET o == fetches[i].outcome
            v == VariantOf(messages, fetches[i])
            empty == IF o.ok THEN ~Truthy(OutcomeImage(o)) /\ thenText(o.value) = undefined
                     ELSE ~Truthy(o.message)
        IN /\ variantView(v) # "placeholder"
           /\ empty => variantView(v) = "hidden"

(* C13: when a success outcome carries non-empty text and no image, merging *)
(* it stores the text on the branch of the provider and sets the turn-level *)
(* content to that text, so the text shows in the turn body while the       *)
(* branch renders nothing; for every provider that can return such text.    *)
C13_TextOnlyIsPromoted ==
    [][\A i \in 1..Len(fetches) :
          LET o == fetches'[i].outcome
          IN (/\ fetches[i].pc = "responded" /\ fetches'[i].pc = "settled"
              /\ o.ok /\ ~Truthy(OutcomeImage(o)) /\ thenText(o.value) # undefined)
                 => /\ VariantOf(messages', fetches'[i]).text = o.value.text
                    /\ variantView(VariantOf(messages', fetches'[i])) = "hidden"
                    /\ TurnOf(messages', fetches'[i].run).content = o.value.text
                    /\ o.value.text \in shownTexts(TurnOf(messages', fetches'[i].run))]_vars

----------------------------------------------------------------------------
(* Properties of the route handlers (RouteSpec) *)

(* The last poll reported a terminal status: success, Error/Failed, non-2xx *)
TerminalPoll(p) ==
    p \in {"thrown", "non-2xx", "Error", "Failed"} \cup okStatuses

(* The turn of a submission to the three providers after the page merged   *)
(* the response of the Flux-1 request as a failure                         *)
TurnAfterFluxFailure(response) ==
    catchUpdater(AssistantMessage(2, SeqMap(LabelOf, Keys)), 2, "Flux-1",
                 outcomeOf([key |-> "flux", response |-> response], TRUE).message)

(* C14: the Flux-1 adapter issues at most 120 polls, waits 500 ms before    *)
(* each, stops at the first poll that reports a terminal status, and when   *)
(* none of the 120 polls is terminal it answers a timeout failure without   *)
(* inserting a row; the timed-out branch gets the failure message and the   *)
(* other branches are unaffected.                                           *)
C14_FluxPollsBoundedThenTimeout ==
    [][handler.route = "flux" =>
          /\ handler'.polls <= MaxPollAttempts
          /\ handler'.waitedMs = PollIntervalMs * handler'.polls
          /\ handler'.polls # handler.polls =>
                /\ handler'.polls = handler.polls + 1
                /\ ~TerminalPoll(handler.lastPoll)
                /\ TerminalPoll(handler'.lastPoll) => handler'.pc = "done"
                /\ (~TerminalPoll(handler'.lastPoll) /\ handler'.polls < MaxPollAttempts)
                      => handler'.pc = "polling"
                /\ (~TerminalPoll(handler'.lastPoll) /\ handler'.polls = MaxPollAttempts)
                      => /\ handler'.pc = "done"
                         /\ handler'.response = JsonError(504, "Generation timed out")
                         /\ generations' = generations
                         /\ LET after == TurnAfterFluxFailure(handler'.response)
                            IN /\ after.variants[3] =
                                    [Variant("Flux-1") EXCEPT
                                        !.text = "{\"error\":\"Generation timed out\"}"]
                               /\ after.variants[1] = Variant("Image-GPT")
                               /\ after.variants[2] = Variant("Gemini")
          /\ generations' # generations =>
                (handler'.response.ok /\ handler'.lastPoll \in okStatuses)]_vars

(* C14 witness: the 120th poll was not terminal and the handler answered 504 *)
C14_Witness ==
    /\ handler.route = "flux"
    /\ handler.pc = "done"
    /\ handler.polls = MaxPollAttempts
    /\ handler.waitedMs = 60000
    /\ ~TerminalPoll(handler.lastPoll)
    /\ handler.response.status = 504

(* C15: every submit-then-poll adapter (Flux-1 and Veo3) ends with an       *)
(* outcome after a bounded number of poll iterations, the 120 of the        *)
(* polling contract, even when the upstream job never becomes terminal.     *)
C15_PollLoopsAreBounded ==
    handler.route \in {"flux", "veo3"} => handler.polls <= MaxPollAttempts

(* The inline-binary chunks of a stream, in arrival order *)
InlineChunks(stream) == SelectSeq(stream, LAMBDA c : c.kind = "inline")

(* What the handler can return for the image of a chunk: the stored URL or the data URL *)
ImageOfChunk(c) == {savedOrDataUrl(c.data, up) : up \in UploadResults}

(* The rows a step adds to the table *)
AddedRows == {g \in DOMAIN generations' : CopiesIn(g, generations') > CopiesIn(g, generations)}

(* C16: when the stream of the Gemini adapter holds more than one           *)
(* inline-binary chunk, the image of the success response, and the          *)
(* outputImageUrl of the row it inserts, are those of the first inline      *)
(* chunk in arrival order; later inline chunks do not replace it.           *)
C16_FirstInlineChunkWins ==
    [][(/\ handler.route = "gemini" /\ handler.pc = "streaming"
        /\ handler'.pc = "done" /\ handler'.response.ok
        /\ handler'.response.value.image # undefined)
          => /\ InlineChunks(handler.stream) # <<>>
             /\ handler'.response.value.image \in ImageOfChunk(Head(InlineChunks(handler.stream)))
             /\ \A g \in AddedRows :
                   g.outputImageUrl \in ImageOfChunk(Head(InlineChunks(handler.stream)))]_vars

IsDataUrl(s) == s # undefined /\ Len(s) >= 5 /\ SubSeq(s, 1, 5) = "data:"

(* C17: a storage outage alone never turns a generation into a failure: for *)
(* Gemini, Image-GPT and Flux-1, when nothing went wrong but the upload     *)
(* (it threw or gave no URL), the request ends in a success response that   *)
(* carries the image as a data URL (Flux-1: the original URL of the         *)
(* provider).                                                               *)
C17_StorageOutageAloneIsNoFailure ==
    (/\ handler.route \in {"gemini", "imageGpt", "flux"}
     /\ handler.pc = "done"
     /\ handler.faults = {"storage"})
       => /\ handler.response.ok
          /\ handler.route = "flux" => Truthy(handler.response.value.url)
                                       /\ ~IsDataUrl(handler.response.value.url)
          /\ handler.route = "imageGpt" => IsDataUrl(handler.response.value.image)
          /\ handler.route = "gemini" =>
                /\ Truthy(handler.response.value.image)
                /\ Len(InlineChunks(handler.stream)) = 1
                      => IsDataUrl(handler.response.value.image)

(* The prompt of the request before the rewrite step *)
OriginalPrompt(h) ==
    IF h.route = "flux" THEN Or(h.body.prompt, FluxDefaultPrompt) ELSE h.body.prompt

(* The rewrite step never ends the request: after it the handler goes on to *)
(* the provider, and only the input image can stop it before the call       *)
RewriteDoesNotFailRequest(h) ==
    h.rewrite = "failed" =>
       \/ h.pc \in {"enhanced", "polling", "streaming"}
       \/ h.upstreamCalls = 1
       \/ h.faults = {"rewrite", "inputImage"}

(* The rewrite step is called only when enhancement is requested *)
RewriteOnlyOnRequest(h) == ~h.body.enhance => h.rewrite = "none"

(* C18, as stated: when enhancement is requested and the rewrite step fails *)
(* (throws, non-2xx, empty text), the provider is invoked with the original *)
(* prompt and the request does not fail because of the rewrite step; when   *)
(* enhancement is not requested the rewrite step is never called.           *)
C18_RewriteFailureKeepsOriginalPrompt ==
    handler.route \in {"gemini", "flux"} =>
       /\ (handler.rewrite = "failed" /\ handler.upstreamCalls = 1)
             => handler.upstreamPrompt = OriginalPrompt(handler)
       /\ RewriteDoesNotFailRequest(handler)
       /\ RewriteOnlyOnRequest(handler)

(* C18, amended: on a failed rewrite the provider is invoked with the       *)
(* original prompt, which the Gemini adapter has trimmed of surrounding     *)
(* whitespace (Flux-1: unchanged); the request does not fail because of the *)
(* rewrite step; without the enhance flag the rewrite step is never called. *)
C18_RewriteFailureKeepsTrimmedPrompt ==
    handler.route \in {"gemini", "flux"} =>
       /\ (handler.rewrite = "failed" /\ handler.upstreamCalls = 1)
             => handler.upstreamPrompt =
                   IF handler.route = "gemini" THEN trim(OriginalPrompt(handler))
                   ELSE OriginalPrompt(handler)
       /\ RewriteDoesNotFailRequest(handler)
       /\ RewriteOnlyOnRequest(handler)

C18_Witness ==
    /\ handler.route = "gemini"
    /\ handler.body.enhance /\ handler.body.prompt = " x"
    /\ handler.rewrite = "failed" /\ "rewrite" \in handler.faults
    /\ handler.upstreamCalls = 1 /\ handler.upstreamPrompt = "x"
    /\ handler.pc = "done" /\ handler.response.ok

(* C19: for the endpoints that test their credential (Gemini, Image-GPT,    *)
(* Flux-1), a request arriving while the credential is missing ends in an   *)
(* error response with status 500, with no upstream call and no row         *)
(* inserted, and the server process keeps running.                          *)
C19_MissingCredentialIsConfined ==
    [][(handler.route \in {"gemini", "imageGpt", "flux"} /\ ~handler.apiKey)
          => /\ generations' = generations
             /\ handler'.upstreamCalls = 0
             /\ handler'.rewrite = "none"
             /\ handler'.process = "running"
             /\ handler'.pc # "start"
                   => /\ handler'.pc = "done"
                      /\ ~handler'.response.ok
                      /\ handler'.response.status = 500]_vars

(* C20: every request to an adapter endpoint ends in one of two responses:  *)
(* a 2xx response with success true, or a non-2xx response whose body       *)
(* carries an error string; no path ends in an exception that leaves the    *)
(* handler, also when the input image cannot be fetched or the provider     *)
(* call or stream throws.                                                   *)
C20_SuccessOrErrorResponse ==
    (handler.route \in {"gemini", "imageGpt", "flux"} /\ handler.pc = "done")
       => \/ /\ handler.response.ok
             /\ handler.response.status = 200
          \/ /\ ~handler.response.ok
             /\ handler.response.status >= 400
             /\ handler.response # Uncaught
             /\ \E st \in {400, 401, 429, 500, 502, 504} :
                   \E err \in {"Unauthorized", "Generation failed", "Generation timed out",
                               "You have reached the limit of 10 image generations.",
                               "BFL submit failed", "No polling URL returned",
                               "BFL polling failed", "Missing BFL_API_KEY",
                               "Server misconfiguration: missing OPENAI_API_KEY",
                               "Failed to fetch image URL: 404", "Connection error.",
                               "Failed query", "No image or text was generated"} :
                      handler.response = JsonError(st, err)

(* The handler returns its response in this step *)
Returns == handler.route \in {"gemini", "imageGpt", "flux"}
           /\ handler.pc # "done" /\ handler'.pc = "done"

(* The body of a response carries neither an image URL nor non-empty text *)
CarriesNothing(value) ==
    /\ ~Truthy(value.image)
    /\ ~Truthy(value.url)
    /\ (value.text = undefined \/ Len(trim(value.text)) = 0)

(* C21: no adapter returns a success that carries neither an image URL nor  *)
(* non-empty text: when the provider produced no image and no usable text   *)
(* (also a poll with a success status and no image reference) the response  *)
(* is a failure and no completed row is inserted.                           *)
C21_NoEmptySuccess ==
    [][(Returns /\ CarriesNothing(handler'.response.value))
          => (~handler'.response.ok /\ generations' = generations)]_vars

(* C22: an adapter invocation inserts exactly one row, with status          *)
(* completed, when it returns a success and no row when it returns a        *)
(* failure; rows already in the table are neither changed nor removed.      *)
C22_OneRowPerSuccess ==
    [][/\ \A g \in DOMAIN generations : CopiesIn(g, generations') >= CopiesIn(g, generations)
       /\ Returns =>
             IF handler'.response.ok
             THEN /\ BagCardinality(generations') = BagCardinality(generations) + 1
                  /\ \A g \in AddedRows : g.status = "completed"
             ELSE generations' = generations]_vars

----------------------------------------------------------------------------
(* Properties of overlapping submissions (OverlapSpec) *)

LabelSeq(m) == [j \in 1..Len(m.variants) |-> m.variants[j].label]

(* Every assistant turn has one branch per provider selected at its         *)
(* dispatch, in task order, and the other messages have no branch           *)
BranchesAsDispatched(msgs) ==
    /\ Len(msgs) = Len(messages)
    /\ \A n \in 1..Len(runs) :
          LET id == runs[n].assistantId
              m == TurnOf(msgs, id)
          IN /\ LabelSeq(m) = [j \in 1..Len(runs[n].startTimes) |->
                                  runs[n].startTimes[j].label]
             /\ Len(m.variants) = Cardinality(TasksOfRun(id))
             /\ \A i \in TasksOfRun(id) :
                   \E j \in 1..Len(m.variants) : m.variants[j].label = LabelOf(fetches[i].key)
    /\ \A k \in 1..Len(msgs) : msgs[k].role = "user" => Len(msgs[k].variants) = 0

(* C23: in every reachable state each assistant turn has exactly one branch *)
(* per provider selected when it was dispatched; no provider outcome,       *)
(* reuse-as-input action or later submission has added, removed or          *)
(* relabelled a branch, and no vote on any branch would.                    *)
C23_BranchesFixedAtDispatch ==
    /\ BranchesAsDispatched(messages)
    /\ \A id \in MessageIds, label \in Labels, vote \in {"up", "down"} :
          BranchesAsDispatched([k \in 1..Len(messages) |->
                                   handleVoteUpdater(messages[k], id, label, vote)])

(* C23 witness: two turns of two branches each; in the first, one branch    *)
(* holds an image, which was taken as input image, and the other a failure; *)
(* the second turn has received an outcome as well.                         *)
C23_Witness ==
    /\ Len(runs) = 2 /\ Len(messages) = 4
    /\ Len(messages[2].variants) = 2 /\ Len(messages[4].variants) = 2
    /\ messages[2].variants[1].imageUrl # undefined
    /\ uploadedImage = messages[2].variants[1].imageUrl
    /\ messages[2].variants[2].text = "{\"error\":\"Generation failed\"}"
    /\ messages[4].variants[2].text = "{\"error\":\"Generation failed\"}"

(* C25: when two submissions overlap, the outcome of a request changes only *)
(* the assistant turn created by that request: every other message, also a  *)
(* turn with a branch of the same provider label, is as before the merge.   *)
C25_OutcomeStaysInItsTurn ==
    [][\A i \in 1..Len(fetches) :
          (fetches[i].pc = "responded" /\ fetches'[i].pc = "settled")
             => /\ Len(messages') = Len(messages)
                /\ \A k \in 1..Len(messages) :
                      messages[k].id # fetches[i].run => messages'[k] = messages[k]
                /\ TurnOf(messages', fetches[i].run) # TurnOf(messages, fetches[i].run)]_vars

(* C25 witness: the first request still has a task in flight while both     *)
(* turns have a branch of the same label: the one of the later turn holds   *)
(* its failure, the one of the earlier turn its image.                      *)
C25_Witness ==
    /\ Len(runs) = 2 /\ runs[1].awaiting
    /\ \E i \in TasksOfRun(runs[1].assistantId), j \in TasksOfRun(runs[2].assistantId),
          k \in TasksOfRun(runs[1].assistantId) :
          /\ fetches[i].key = fetches[j].key
          /\ fetches[k].pc = "sent"
          /\ fetches[i].pc = "settled" /\ fetches[i].outcome.ok
          /\ fetches[j].pc = "settled" /\ ~fetches[j].outcome.ok
          /\ VariantOf(messages, fetches[i]).imageUrl = fetches[i].outcome.value.image
          /\ VariantOf(messages, fetches[i]).text = undefined
          /\ VariantOf(messages, fetches[j]).imageUrl = undefined
          /\ VariantOf(messages, fetches[j]).text = fetches[j].outcome.message

(* C27: "use this image" on a branch that shows an image sets the pending   *)
(* input image to the image URL of that branch and leaves the list of turns *)
(* unchanged; the next submission sends that image as its input image.      *)
C27_ReuseSetsNextInputImage ==
    [][/\ uploadedImage' # uploadedImage =>
             /\ messages' = messages
             /\ \E n \in 1..Len(messages) : \E j \in 1..Len(messages[n].variants) :
                   /\ variantView(messages[n].variants[j]) = "image"
                   /\ uploadedImage' = messages[n].variants[j].imageUrl
       /\ \A i \in 1..Len(fetches') :
             i > Len(fetches) => fetches'[i].payload.image = uploadedImage]_vars

(* C27 witness: the second submission has sent the image of a branch of the *)
(* first turn, and that branch still holds it.                              *)
C27_Witness ==
    /\ Len(runs) = 2
    /\ \E i \in TasksOfRun(runs[2].assistantId) :
          /\ Truthy(fetches[i].payload.image)
          /\ \E j \in 1..Len(messages[2].variants) :
                /\ messages[2].variants[j].imageUrl = fetches[i].payload.image
                /\ variantView(messages[2].variants[j]) = "image"

(* The start reading of the task of fetch f *)
StartOf(f) == startTime(f.run, LabelOf(f.key), clock)

(* C30: each dispatched branch receives exactly one provider-driven update: *)
(* nothing before its task settles; when it settles, the success update if  *)
(* the response was 2xx and the failure update otherwise, never both; and   *)
(* nothing after.                                                           *)
C30_ExactlyOneUpdatePerBranch ==
    [][\A i \in 1..Len(fetches') :
          fetches'[i].observed =>
             LET f == fetches'[i]
                 label == LabelOf(f.key)
                 after == VariantOf(messages', f)
             IN IF f.pc # "settled" THEN after = Variant(label)
                ELSE LET before == VariantOf(messages, fetches[i])
                     IN IF fetches[i].pc = "settled"
                        THEN after = before /\ f = fetches[i]
                        ELSE /\ fetches[i].pc = "responded"
                             /\ before = Variant(label)
                             /\ f.outcome.ok = fetches[i].response.ok
                             /\ after = IF f.outcome.ok
                                        THEN thenVariant(before, label, f.outcome.value,
                                                         clock', StartOf(fetches[i]))
                                        ELSE catchVariant(before, label, f.outcome.message)]_vars

(* C30 witness: both tasks of a turn have settled; one branch holds the     *)
(* success update, the other the failure update alone.                      *)
C30_Witness ==
    \E n \in 1..Len(runs) :
       \E i \in TasksOfRun(runs[n].assistantId), j \in TasksOfRun(runs[n].assistantId) :
          /\ fetches[i].pc = "settled" /\ fetches[i].outcome.ok
          /\ fetches[j].pc = "settled" /\ ~fetches[j].outcome.ok
          /\ VariantOf(messages, fetches[i]).durationMs = 1
          /\ VariantOf(messages, fetches[i]).tokens = 3
          /\ VariantOf(messages, fetches[j]) =
                [Variant(LabelOf(fetches[j].key)) EXCEPT !.text = fetches[j].outcome.message]

----------------------------------------------------------------------------
(* Properties of the page that need the continuation to run (LiveSpec) *)

(* handleSubmit has got past its checks once, and not again since *)
SingleSubmission == Submits = 1

(* Every dispatched task of the run has settled, with success or failure *)
EveryTaskSettled(assistantId) ==
    \A i \in TasksOfRun(assistantId) : fetches[i].pc = "settled"

(* A submission is suspended at its await with every task settled *)
ReadyToResume ==
    \E n \in 1..Len(runs) : runs[n].awaiting /\ EveryTaskSettled(runs[n].assistantId)

(* C24: for a single submission, loading is true from the dispatch until    *)
(* every dispatched task has settled, success or failure, and false after   *)
(* the submission has resumed; once all tasks have settled loading          *)
(* eventually becomes false.                                                *)
C24_LoadingUntilAllSettled ==
    /\ [](SingleSubmission =>
             \A n \in 1..Len(runs) :
                /\ ~EveryTaskSettled(runs[n].assistantId) => (runs[n].awaiting /\ loading)
                /\ runs[n].awaiting => loading
                /\ ~runs[n].awaiting => ~loading)
    /\ ((SingleSubmission /\ ReadyToResume) ~> (~loading \/ ~SingleSubmission))

(* C24 witness: the submission has resumed, loading is false, and its tasks *)
(* settled with a success and with a failure.                               *)
C24_Witness ==
    /\ SingleSubmission
    /\ ~loading
    /\ \E n \in 1..Len(runs) :
          /\ ~runs[n].awaiting
          /\ \E i \in TasksOfRun(runs[n].assistantId), j \in TasksOfRun(runs[n].assistantId) :
                fetches[i].outcome.ok /\ ~fetches[j].outcome.ok

----------------------------------------------------------------------------
(* Properties of the updaters, continued (MergeSpec) *)

(* The turn list after handleVote(messageId, label, vote) *)
Voted(msgs, messageId, label, vote) ==
    [k \in 1..Len(msgs) |-> handleVoteUpdater(msgs[k], messageId, label, vote)]

(* C26: handleVote(message, label, v) sets the vote of the branch (message, *)
(* label) to none when its vote is v and to v otherwise and changes nothing *)
(* else; the same vote twice on a branch without a vote leaves it without   *)
(* one, and Down on an Up-voted branch gives Down.                          *)
C26_VoteToggles ==
    \A id \in MessageIds, label \in Labels, vote \in {"up", "down"} :
        LET after == Voted(messages, id, label, vote)
        IN /\ Len(after) = Len(messages)
           /\ \A k \in 1..Len(messages) :
                 /\ [after[k] EXCEPT !.variants = <<>>] = [messages[k] EXCEPT !.variants = <<>>]
                 /\ Len(after[k].variants) = Len(messages[k].variants)
                 /\ \A j \in 1..Len(messages[k].variants) :
                       LET b == messages[k].variants[j]
                       IN after[k].variants[j] =
                             IF messages[k].id = id /\ b.label = label
                             THEN [b EXCEPT !.vote = IF b.vote = vote THEN undefined ELSE vote]
                             ELSE b
           /\ (\A j \in 1..Len(Turn.variants) :
                  Turn.variants[j].label = label => Turn.variants[j].vote = undefined)
                 => Voted(after, id, label, vote) = messages
           /\ \A j \in 1..Len(Turn.variants) :
                 (id = Turn.id /\ Turn.variants[j].label = label
                    /\ Turn.variants[j].vote = "up" /\ vote = "down")
                    => after[2].variants[j].vote = "down"

(* C26 witness: a branch voted Up and then Down holds Down, and nothing     *)
(* else in the turn has changed.                                            *)
C26_Witness ==
    /\ merges = MaxMerges
    /\ Len(Turn.variants) >= 2
    /\ Turn.content = undefined
    /\ Turn.variants[1] = [Variant(Turn.variants[1].label) EXCEPT !.vote = "down"]
    /\ Turn.variants[2] = Variant(Turn.variants[2].label)

(* Outcomes with and without an image, a text and a token count, and the    *)
(* failures                                                                 *)
PairOutcomes ==
    {o \in Outcomes : /\ o.value.url = undefined
                      /\ o.value.totalTokens = UndefNum
                      /\ o.value.text # " "}

(* C28: merges of outcomes for two different branches of the same turn      *)
(* commute: for any turn and any two outcomes, success or failure, for      *)
(* distinct providers, each merged with its own reading of the clock, both  *)
(* orders give the same branches and the same turn-level content.           *)
C28_MergesCommute ==
    merges < MaxMerges =>
       \A a \in Labels, b \in Labels :
          a # b =>
             \A oa \in PairOutcomes, ob \in PairOutcomes :
                \A na \in clock..MaxClock, nb \in clock..MaxClock :
                   Merged(Merged(Turn, a, oa, na), b, ob, nb)
                      = Merged(Merged(Turn, b, ob, nb), a, oa, na)

(* C28 witness: two branches of the turn hold the outcomes of their         *)
(* providers, an image with its duration and a failure.                     *)
C28_Witness ==
    /\ merges = MaxMerges
    /\ \E i \in 1..Len(Turn.variants), j \in 1..Len(Turn.variants) :
          /\ i # j
          /\ Turn.variants[i].imageUrl # undefined
          /\ Turn.variants[i].durationMs = 1
          /\ Turn.variants[j].text = "{\"error\":\"Generation failed\"}"
          /\ Turn.variants[j].imageUrl = undefined

(* C29: merging the same provider outcome into the same turn twice gives    *)
(* the same turn as merging it once, for success and for failure outcomes,  *)
(* including the duration and the turn-level content.                       *)
C29_MergeIsIdempotent ==
    \A label \in LabelsOfTurn(Turn), o \in PairOutcomes :
       (\E n1 \in 0..clock : Turn = Merged(Turn, label, o, n1))
          => \A n2 \in clock..MaxClock : Merged(Turn, label, o, n2) = Turn

----------------------------------------------------------------------------
(* Properties of the order of completion (OverlapSpec) *)

(* The branches of a turn that show an outcome, by label *)
ResolvedLabels(m) ==
    {m.variants[j].label : j \in {k \in 1..Len(m.variants) : ~isPending(m.variants[k])}}

(* The labels of the tasks of a run that have settled *)
SettledLabels(assistantId) ==
    {LabelOf(fetches[i].key) : i \in {k \in TasksOfRun(assistantId) :
                                        fetches[k].pc = "settled"}}

(* C31: the outcome of a branch is applied as soon as its own task settles, *)
(* whatever the state of the other tasks: a task whose response has arrived *)
(* can settle at once and a task in flight can complete at once, whichever  *)
(* of the other tasks are pending, so that every subset of the dispatched   *)
(* providers can be the resolved ones; and the resolved branches of a turn  *)
(* are exactly those whose task has settled, the others being pending.      *)
C31_AppliedInCompletionOrder ==
    /\ \A i \in 1..Len(fetches) :
          fetches[i].observed =>
             /\ fetches[i].pc = "responded" => ENABLED settle(i, TRUE)
             /\ fetches[i].pc = "sent" =>
                   \A response \in FetchResults : ENABLED fetchResolves(i, response)
    /\ \A n \in 1..Len(runs) :
          ResolvedLabels(TurnOf(messages, runs[n].assistantId))
             = SettledLabels(runs[n].assistantId)

(* C31 witness: in a turn of two branches the branch dispatched second is   *)
(* resolved while the one dispatched first is pending and its request still *)
(* in flight.                                                               *)
C31_Witness ==
    \E n \in 1..Len(runs) :
       LET m == TurnOf(messages, runs[n].assistantId)
       IN /\ Len(m.variants) = 2
          /\ isPending(m.variants[1])
          /\ ~isPending(m.variants[2])
          /\ \E i \in TasksOfRun(runs[n].assistantId), j \in TasksOfRun(runs[n].assistantId) :
                /\ i < j
                /\ fetches[i].pc = "sent"
                /\ fetches[j].pc = "settled"
                /\ LabelOf(fetches[j].key) = m.variants[2].label

----------------------------------------------------------------------------
(* Properties of a turn after its last outcome (VoteSpec) *)

----------------------------------------------------------------------------
(* Properties of the duration of a branch (OverlapSpec) *)

(* C33: every branch whose outcome has arrived, success or failure, has a   *)
(* durationMs equal to the time its own outcome was applied minus the start *)
(* timestamp recorded for that branch at dispatch, whatever the other       *)
(* branches of the turn do.                                                  *)
C33_DurationFromOwnStart ==
    [][\A i \in 1..Len(fetches) :
          (fetches[i].observed /\ fetches[i].pc = "responded"
                               /\ fetches'[i].pc = "settled")
             => VariantOf(messages', fetches'[i]).durationMs
                   = MathRound(clock' - StartOf(fetches[i]))]_vars

----------------------------------------------------------------------------
(* Properties of the token usage of the Gemini adapter (RouteSpec) *)

(* The usage of the last chunk of the stream that carries usage metadata *)
RECURSIVE LastUsage(_)
LastUsage(stream) ==
    IF stream = <<>> THEN UndefNum
    ELSE IF stream[Len(stream)].tokens # UndefNum THEN stream[Len(stream)].tokens
    ELSE LastUsage(SubSeq(stream, 1, Len(stream) - 1))

(* C34: the token usage returned by the Gemini adapter is the usage         *)
(* metadata of the last chunk of the stream that carries usage metadata,    *)
(* whichever chunk that is, also a terminal chunk without content parts.    *)
C34_UsageOfLastChunkWithUsage ==
    [][(/\ handler.route = "gemini" /\ handler.pc = "streaming"
        /\ handler'.pc = "done" /\ handler'.response.ok)
          => handler'.response.value.tokens = LastUsage(handler.stream)]_vars

----------------------------------------------------------------------------
(* Properties of the quota under concurrent requests (Spec) *)

(* C35: in every reachable state, under any interleaving of concurrent      *)
(* generation requests of one user across the provider endpoints, the       *)
(* number of that user's rows with status completed is at most 10.          *)
C35_CompletedRowsWithinQuota == CompletedOf(UserId) <= QuotaLimit

----------------------------------------------------------------------------
(* Properties of the loading indicator with overlapping submissions (OverlapSpec) *)

(* C36: with overlapping submissions the loading indicator is true in every *)
(* state in which some dispatched branch of any assistant turn is still     *)
(* pending: the end of one submission does not clear it while the tasks of  *)
(* another are in flight.                                                   *)
C36_LoadingWhileAnyBranchPending ==
    (\E n \in 1..Len(runs) : \E i \in TasksOfRun(runs[n].assistantId) :
         /\ fetches[i].pc # "settled"
         /\ isPending(VariantOf(messages, fetches[i])))
       => loading

----------------------------------------------------------------------------
(* Properties of the quota check of a route handler (RouteSpec) *)

(* C37: when the quota query fails the endpoint does not go on to the       *)
(* provider: the Gemini and Flux-1 handlers send a request to the upstream  *)
(* provider only after a quota check that succeeded and counted fewer than  *)
(* 10 completed rows, so never for a user who has 10 or more.               *)
C37_ProviderOnlyAfterPassedQuotaCheck ==
    [][(/\ handler.route \in {"gemini", "flux"}
        /\ handler'.upstreamCalls > handler.upstreamCalls)
          => CompletedOf(handler.userId) < QuotaLimit]_vars

----------------------------------------------------------------------------
(* Properties of the limit shown to the user (Spec) *)

(* C38: the limitReached flag of the fetch-images endpoint agrees with the  *)
(* quota guard: for every table of persisted rows, limitReached is true     *)
(* exactly when the guard of the generation endpoints would reject the next *)
(* request of that user.                                                    *)
C38_LimitFlagAgreesWithGuard ==
    fetchImagesLimitReached(UserId) <=> limitReached(UserId)

----------------------------------------------------------------------------
(* Properties of the persisted record (RouteSpec) *)

(* The image a response hands to the caller: image, or url *)
ReturnedImage(response) == Or(Or(response.value.image, response.value.url), "")

(* C39: every row inserted by the Gemini, Flux-1 or Image-GPT adapter has   *)
(* inputImageUrl equal to the input image of the request (empty when the    *)
(* request had none) and outputImageUrl equal to the image returned to the  *)
(* caller.                                                                   *)
C39_RowHoldsInputAndOutputImage ==
    [][\A g \in AddedRows :
          /\ handler'.pc = "done" /\ handler'.response.ok
          /\ g.inputImageUrl = Or(handler.body.image, "")
          /\ g.outputImageUrl = ReturnedImage(handler'.response)]_vars

====
